---- MODULE Spec2Model ----
(***************************************************************************)
(* Reward and rebalancing accounting of the alliance module               *)
(* (x/alliance/keeper): asset registry, validator share ledger,           *)
(* delegation ledger, weight-change snapshot log, decay and take-rate     *)
(* hooks, rebalancer and the EndBlocker that orchestrates them.           *)
(*                                                                         *)
(* Decimals (cosmossdk.io/math LegacyDec) are fixed-point integers: the    *)
(* integer n stands for n / DecUnit.  The library keeps 18 fractional      *)
(* digits and the conversion epsilon has 6; TLC's integers are 32 bits     *)
(* wide, so the model keeps DecDigits fractional digits and an epsilon of  *)
(* EpsilonPrec digits, with the library's rounding rules unchanged.        *)
(***************************************************************************)
EXTENDS Integers, Sequences, FiniteSets, TLC

VARIABLES
    assets,           \* asset store: denom -> AllianceAsset
    validators,       \* validator -> alliance validator info and staking validator
    delegations,      \* <<delegator, validator, denom>> -> Delegation
    snapshots,        \* <<denom, validator, height>> -> RewardWeightChangeSnapshot
    rebalanceQueued,  \* TRUE iff AssetRebalanceQueueKey is in the store
    params,           \* module params (take-rate clock)
    bank,             \* module account balances and mint/burn totals
    ctx,              \* block time and block height of the running block
    ledger            \* history: reference ledger, payouts, calls of the last handler

vars == <<assets, validators, delegations, snapshots, rebalanceQueued, params, bank, ctx, ledger>>

----------------------------------------------------------------------------
(* Bounds of the model *)

DecDigits == 2
MaxHeight == 3
MaxTime == 4
MaxDeposits == 2
MaxUpdates == 1

(* Program constants *)

EpsilonPrec == 1
ZeroTime == 0

DecUnit == 10 ^ DecDigits
Epsilon == 10 ^ (DecDigits - EpsilonPrec)

Denoms == {"alliance", "alliance2"}
RewardDenoms == {"stake", "stake2"}
Vals == {"val1", "val2"}

----------------------------------------------------------------------------
(* LegacyDec arithmetic on non-negative operands *)

NewDec(i) == i * DecUnit

\* chopPrecisionAndRound: drop DecUnit with banker's rounding, given the
\* quotient q and the remainder r (0 <= r < DecUnit)
RoundHalfEven(q, r) ==
    IF 2 * r < DecUnit THEN q
    ELSE IF 2 * r > DecUnit THEN q + 1
    ELSE IF q % 2 = 0 THEN q ELSE q + 1

\* LegacyDec.Mul: (a * b) / DecUnit, rounded half to even
DecMul(a, b) == RoundHalfEven((a * b) \div DecUnit, (a * b) % DecUnit)

\* LegacyDec.Quo: (a * DecUnit * DecUnit) / b truncated, then chopped with
\* banker's rounding; computed in two steps to stay within 32 bits
DecQuo(a, b) ==
    LET n == (a * DecUnit) \div b
        r == (a * DecUnit) % b
    IN  RoundHalfEven(n, (r * DecUnit) \div b)

\* LegacyDec.MulInt: exact
DecMulInt(a, i) == a * i

\* LegacyDec.TruncateInt
TruncateInt(a) == a \div DecUnit

\* LegacyDec.Power: exponentiation by squaring, every product rounded by Mul
RECURSIVE PowerLoop(_, _, _)
PowerLoop(d, power, tmp) ==
    IF power <= 1 THEN DecMul(d, tmp)
    ELSE PowerLoop(DecMul(d, d), power \div 2, IF power % 2 # 0 THEN DecMul(tmp, d) ELSE tmp)

DecPower(d, power) == IF power = 0 THEN NewDec(1) ELSE PowerLoop(d, power, NewDec(1))

----------------------------------------------------------------------------
(* types/asset.go *)

\* a slip: rewards start only strictly after the reward start time
RewardsStartedStrictlyAfter(asset, blockTime) == blockTime > asset.RewardStartTime

\* AllianceAsset.RewardsStarted
RewardsStarted(asset, blockTime) == blockTime >= asset.RewardStartTime

ConvertNewTokenToShares(totalTokens, totalShares, newTokens) ==
    IF totalShares = 0 THEN NewDec(newTokens)
    ELSE DecMulInt(DecQuo(totalShares, totalTokens), newTokens)

ConvertNewShareToDecToken(totalTokens, totalShares, shares) ==
    IF totalShares = 0 THEN totalTokens
    ELSE DecMul(DecQuo(shares, totalShares), totalTokens)

----------------------------------------------------------------------------
(* The store as one value, so that handlers compose *)

Store ==
    [assets |-> assets, validators |-> validators, delegations |-> delegations,
     snapshots |-> snapshots, rebalanceQueued |-> rebalanceQueued, params |-> params,
     bank |-> bank, ctx |-> ctx, ledger |-> ledger]

Commit(s) ==
    /\ assets' = s.assets
    /\ validators' = s.validators
    /\ delegations' = s.delegations
    /\ snapshots' = s.snapshots
    /\ rebalanceQueued' = s.rebalanceQueued
    /\ params' = s.params
    /\ bank' = s.bank
    /\ ctx' = s.ctx
    /\ ledger' = s.ledger

\* store.Set on a keyed collection: overwrites the value under an existing key
Put(f, k, v) == [x \in (DOMAIN f) \cup {k} |-> IF x = k THEN v ELSE f[x]]

\* iteration orders of the key-value store (keys ascend)
DenomSeq == <<"alliance", "alliance2">>
ValSeq == <<"val1", "val2">>
RewardDenomSeq == <<"stake", "stake2">>

\* a call made by the running handler to a collaborator, in order
Called(s, call) == [s EXCEPT !.ledger.calls = Append(@, call)]

----------------------------------------------------------------------------
(* types/validator.go, types/delegation.go *)

\* RewardHistories.GetIndexByDenom, zero when the denom is absent
GetIndexByDenom(histories, rewardDenom) ==
    IF rewardDenom \in DOMAIN histories THEN histories[rewardDenom] ELSE 0

\* AllianceValidator.ValidatorSharesWithDenom
ValidatorSharesWithDenom(val, denom) == val.ValidatorShares[denom]

\* AllianceValidator.TotalDelegationSharesWithDenom
TotalDelegationSharesWithDenom(val, denom) == val.TotalDelegatorShares[denom]

\* AllianceValidator.TotalTokensWithAsset
TotalTokensWithAsset(val, denom, asset) ==
    ConvertNewShareToDecToken(NewDec(asset.TotalTokens), asset.TotalValidatorShares,
                              ValidatorSharesWithDenom(val, denom))

\* types.GetDelegationTokens: the coin amount
GetDelegationTokens(del, val, denom, asset) ==
    TruncateInt(ConvertNewShareToDecToken(TotalTokensWithAsset(val, denom, asset),
                                          TotalDelegationSharesWithDenom(val, denom),
                                          del.Shares) + Epsilon)

\* a slip: the token value is truncated without the epsilon
GetDelegationTokensWithSharesWithoutEpsilon(delegatorShares, val, denom, asset) ==
    TruncateInt(ConvertNewShareToDecToken(TotalTokensWithAsset(val, denom, asset),
                                          TotalDelegationSharesWithDenom(val, denom),
                                          delegatorShares))

\* types.GetDelegationTokensWithShares: the coin amount
GetDelegationTokensWithShares(delegatorShares, val, denom, asset) ==
    TruncateInt(ConvertNewShareToDecToken(TotalTokensWithAsset(val, denom, asset),
                                          TotalDelegationSharesWithDenom(val, denom),
                                          delegatorShares) + Epsilon)

\* types.GetDelegationSharesFromTokens
GetDelegationSharesFromTokens(val, denom, asset, token) ==
    IF TruncateInt(TotalDelegationSharesWithDenom(val, denom)) = 0 THEN NewDec(token)
    ELSE ConvertNewTokenToShares(TotalTokensWithAsset(val, denom, asset),
                                 TotalDelegationSharesWithDenom(val, denom), token)

\* types.NewRewardWeightChangeSnapshot
NewRewardWeightChangeSnapshot(asset, val) ==
    [PrevRewardWeight |-> asset.RewardWeight, RewardHistories |-> val.GlobalRewardHistory]

----------------------------------------------------------------------------
(* keeper/asset.go: asset store, rebalance marker, snapshot log *)

SetAsset(s, denom, asset) == [s EXCEPT !.assets = Put(@, denom, asset)]

QueueAssetRebalanceEvent(s) == [s EXCEPT !.rebalanceQueued = TRUE]

\* a slip: the marker is read but not deleted
ConsumeAssetRebalanceEventKeepingMarker(s) == [consumed |-> s.rebalanceQueued, st |-> s]

\* ConsumeAssetRebalanceEvent: the returned flag and the store afterwards
ConsumeAssetRebalanceEvent(s) ==
    IF s.rebalanceQueued
    THEN [consumed |-> TRUE, st |-> [s EXCEPT !.rebalanceQueued = FALSE]]
    ELSE [consumed |-> FALSE, st |-> s]

setRewardWeightChangeSnapshot(s, denom, valAddr, height, snapshot) ==
    [s EXCEPT !.snapshots = Put(@, <<denom, valAddr, height>>, snapshot)]

SetRewardWeightChangeSnapshot(s, denom, asset, valAddr) ==
    setRewardWeightChangeSnapshot(s, denom, valAddr, s.ctx.BlockHeight,
        NewRewardWeightChangeSnapshot(asset, s.validators[valAddr]))

CreateInitialRewardWeightChangeSnapshot(s, denom, valAddr) ==
    setRewardWeightChangeSnapshot(s, denom, valAddr, s.ctx.BlockHeight,
        [PrevRewardWeight |-> 0,
         RewardHistories |-> s.validators[valAddr].GlobalRewardHistory])

\* IterateWeightChangeSnapshot: the heights of the snapshots of (denom, valAddr)
\* from lastClaimHeight on, ascending
RECURSIVE SortedHeights(_)
SortedHeights(hs) ==
    IF hs = {} THEN <<>>
    ELSE LET h == CHOOSE x \in hs : \A y \in hs : x <= y
         IN  <<h>> \o SortedHeights(hs \ {h})

IterateWeightChangeSnapshot(s, denom, valAddr, lastClaimHeight) ==
    SortedHeights({k[3] : k \in {x \in DOMAIN s.snapshots :
                       x[1] = denom /\ x[2] = valAddr /\ x[3] >= lastClaimHeight}})

----------------------------------------------------------------------------
(* keeper/reward.go: weighted reward index and claims *)

\* totalAssetWeight: the validator's total weighted value over started assets
RECURSIVE WeightOver(_, _, _)
WeightOver(s, valAddr, denoms) ==
    IF denoms = <<>> THEN 0
    ELSE LET denom == Head(denoms)
             rest == WeightOver(s, valAddr, Tail(denoms))
         IN  IF denom \in DOMAIN s.assets /\ RewardsStarted(s.assets[denom], s.ctx.BlockTime)
             THEN DecMul(s.assets[denom].RewardWeight,
                         TotalTokensWithAsset(s.validators[valAddr], denom, s.assets[denom]))
                  + rest
             ELSE rest

totalAssetWeight(s, valAddr) == WeightOver(s, valAddr, DenomSeq)

\* The reference ledger: what a deposit that moves the index by indexDelta
\* credits to the delegation under key k, weight x tokens x indexDelta, exact
\* (in units of 1 / DecUnit^2)
ReferenceCredit(s, k, indexDelta) ==
    LET asset == s.assets[k[3]]
        tokens == GetDelegationTokens(s.delegations[k], s.validators[k[2]], k[3], asset)
    IN  IF RewardsStarted(asset, s.ctx.BlockTime)
        THEN indexDelta * DecMulInt(asset.RewardWeight, tokens)
        ELSE 0

\* a deposit that sets the validator's global index to the quotient of the
\* deposit, dropping what the index held
AddAssetsToRewardPoolResettingIndex(s, valAddr, rewardDenom, amount) ==
    LET history == s.validators[valAddr].GlobalRewardHistory
        raised(indexDelta) ==
            [s EXCEPT
                !.validators[valAddr].GlobalRewardHistory =
                    Put(history, rewardDenom, indexDelta),
                !.bank.RewardsPool[rewardDenom] = @ + amount,
                !.ledger.deposited[rewardDenom] = @ + amount]
        over(weight) == IF weight = 0 THEN s ELSE raised(DecQuo(NewDec(amount), weight))
    IN  over(totalAssetWeight(s, valAddr))

\* a deposit that moves the coin into the rewards pool whatever the total
\* weighted value is
AddAssetsToRewardPoolWhateverTheWeight(s, valAddr, rewardDenom, amount) ==
    LET history == s.validators[valAddr].GlobalRewardHistory
        raised(indexDelta) ==
            [s EXCEPT
                !.validators[valAddr].GlobalRewardHistory =
                    Put(history, rewardDenom, GetIndexByDenom(history, rewardDenom) + indexDelta),
                !.bank.RewardsPool[rewardDenom] = @ + amount,
                !.ledger.owed =
                    [k \in DOMAIN s.ledger.owed |->
                        IF k[2] = valAddr
                        THEN [s.ledger.owed[k] EXCEPT
                                ![rewardDenom] = @ + ReferenceCredit(s, k, indexDelta)]
                        ELSE s.ledger.owed[k]],
                !.ledger.deposited[rewardDenom] = @ + amount]
        over(weight) ==
            IF weight = 0
            THEN [s EXCEPT !.bank.RewardsPool[rewardDenom] = @ + amount,
                           !.ledger.deposited[rewardDenom] = @ + amount]
            ELSE raised(DecQuo(NewDec(amount), weight))
    IN  over(totalAssetWeight(s, valAddr))

\* AddAssetsToRewardPool for one coin: raise the validator's global index of the
\* coin's denom by amount / total weighted value and move the coin into the
\* rewards pool; nothing happens when the total weighted value is zero
AddAssetsToRewardPool(s, valAddr, rewardDenom, amount) ==
    LET history == s.validators[valAddr].GlobalRewardHistory
        raised(indexDelta) ==
            [s EXCEPT
                !.validators[valAddr].GlobalRewardHistory =
                    Put(history, rewardDenom, GetIndexByDenom(history, rewardDenom) + indexDelta),
                !.bank.RewardsPool[rewardDenom] = @ + amount,
                !.ledger.owed =
                    [k \in DOMAIN s.ledger.owed |->
                        IF k[2] = valAddr
                        THEN [s.ledger.owed[k] EXCEPT
                                ![rewardDenom] = @ + ReferenceCredit(s, k, indexDelta)]
                        ELSE s.ledger.owed[k]],
                !.ledger.deposited[rewardDenom] = @ + amount]
        over(weight) == IF weight = 0 THEN s ELSE raised(DecQuo(NewDec(amount), weight))
    IN  over(totalAssetWeight(s, valAddr))

\* ClaimValidatorRewards: withdraw the staking rewards outstanding on the
\* module's delegation to the validator into the module account and add them
\* to the rewards pool from there; what the pool does not take stays in the
\* module account
RECURSIVE FlushOver(_, _, _)
FlushOver(s, valAddr, rewardDenoms) ==
    IF rewardDenoms = <<>> THEN s
    ELSE LET d == Head(rewardDenoms)
             amount == s.validators[valAddr].Outstanding[d]
             sent(res) ==
                 [res EXCEPT !.bank.Withdrawn[d] =
                                 @ - (res.bank.RewardsPool[d] - s.bank.RewardsPool[d])]
             s1 == IF amount = 0 THEN s
                   ELSE sent(AddAssetsToRewardPool(
                                 [s EXCEPT !.validators[valAddr].Outstanding[d] = 0,
                                           !.bank.Withdrawn[d] = @ + amount],
                                 valAddr, d, amount))
         IN  FlushOver(s1, valAddr, Tail(rewardDenoms))

ClaimValidatorRewards(s, valAddr) ==
    FlushOver(Called(s, <<"ClaimValidatorRewards", valAddr>>), valAddr, RewardDenomSeq)

\* accumulateRewards: per reward denom, (latest index - local index) x tokens x
\* weight truncated to whole coins, and the local index moved to the latest
accumulateRewards(latest, acc, tokens, rewardWeight) ==
    LET claimWeight == DecMul(NewDec(tokens), rewardWeight)
        due(d) == d \in DOMAIN latest /\ GetIndexByDenom(acc.histories, d) < latest[d]
    IN  [rewards |-> [d \in RewardDenoms |->
                        IF due(d)
                        THEN acc.rewards[d]
                             + TruncateInt(DecMul(latest[d] - GetIndexByDenom(acc.histories, d),
                                                  claimWeight))
                        ELSE acc.rewards[d]],
         histories |-> [d \in (DOMAIN acc.histories) \cup {x \in DOMAIN latest : due(x)} |->
                        IF due(d) THEN latest[d] ELSE acc.histories[d]],
         truncs |-> [d \in RewardDenoms |-> IF due(d) THEN acc.truncs[d] + 1 ELSE acc.truncs[d]]]

\* CalculateDelegationRewards: walk the snapshots written since the last claim,
\* each with the weight it recorded, then the current index with the current weight
RECURSIVE SnapshotWalk(_, _, _, _, _)
SnapshotWalk(s, k, heights, acc, tokens) ==
    IF heights = <<>> THEN acc
    ELSE LET snapshot == s.snapshots[<<k[3], k[2], Head(heights)>>]
         IN  SnapshotWalk(s, k, Tail(heights),
                 accumulateRewards(snapshot.RewardHistories, acc, tokens,
                                   snapshot.PrevRewardWeight),
                 tokens)

CalculateDelegationRewards(s, k) ==
    LET del == s.delegations[k]
        val == s.validators[k[2]]
        asset == s.assets[k[3]]
        tokens == GetDelegationTokens(del, val, k[3], asset)
        start == [rewards |-> [d \in RewardDenoms |-> 0],
                  histories |-> del.RewardHistory,
                  truncs |-> [d \in RewardDenoms |-> 0]]
        walked == SnapshotWalk(s, k,
                      IterateWeightChangeSnapshot(s, k[3], k[2], del.LastRewardClaimHeight),
                      start, tokens)
    IN  IF RewardsStarted(asset, s.ctx.BlockTime)
        THEN accumulateRewards(val.GlobalRewardHistory, walked, tokens, asset.RewardWeight)
        ELSE start

\* a slip: the local index moves only for the reward denoms that paid something
ClaimDelegationRewardsPaidDenomsOnly(s, delAddr, valAddr, denom) ==
    LET k == <<delAddr, valAddr, denom>>
    IN  IF denom \notin DOMAIN s.assets
        THEN [st |-> s, err |-> "ErrUnknownAsset", coins |-> [d \in RewardDenoms |-> 0]]
        ELSE IF k \notin DOMAIN s.delegations
        THEN [st |-> s, err |-> "ErrNoDelegatorForAddress", coins |-> [d \in RewardDenoms |-> 0]]
        ELSE LET paid(s1, res) ==
                     LET global == s1.validators[valAddr].GlobalRewardHistory
                         local == s1.delegations[k].RewardHistory
                         moved == {d \in DOMAIN global : res.rewards[d] > 0}
                     IN  [st |-> [s1 EXCEPT
                            !.delegations[k].RewardHistory =
                                [d \in (DOMAIN local) \cup moved |->
                                    IF d \in moved THEN global[d] ELSE local[d]],
                            !.delegations[k].LastRewardClaimHeight = s1.ctx.BlockHeight,
                            !.bank.RewardsPool = [d \in RewardDenoms |-> @[d] - res.rewards[d]],
                            !.ledger.paid[k] = [d \in RewardDenoms |-> @[d] + res.rewards[d]],
                            !.ledger.truncs[k] = [d \in RewardDenoms |-> @[d] + res.truncs[d]]],
                          err |-> "",
                          coins |-> res.rewards]
                 calculated(s1) == paid(s1, CalculateDelegationRewards(s1, k))
             IN  calculated(ClaimValidatorRewards(s, valAddr))

\* a slip: a claim without a delegation succeeds with no coins
ClaimDelegationRewardsWithoutDelegation(s, delAddr, valAddr, denom) ==
    LET k == <<delAddr, valAddr, denom>>
    IN  IF denom \notin DOMAIN s.assets
        THEN [st |-> s, err |-> "ErrUnknownAsset", coins |-> [d \in RewardDenoms |-> 0]]
        ELSE IF k \notin DOMAIN s.delegations
        THEN [st |-> s, err |-> "", coins |-> [d \in RewardDenoms |-> 0]]
        ELSE LET paid(s1, res) ==
                     IF \E d \in RewardDenoms : res.rewards[d] > s1.bank.RewardsPool[d]
                     THEN [st |-> s, err |-> "ErrInsufficientFunds",
                           coins |-> [d \in RewardDenoms |-> 0]]
                     ELSE [st |-> [s1 EXCEPT
                            !.delegations[k].RewardHistory = s1.validators[valAddr].GlobalRewardHistory,
                            !.delegations[k].LastRewardClaimHeight = s1.ctx.BlockHeight,
                            !.bank.RewardsPool = [d \in RewardDenoms |-> @[d] - res.rewards[d]],
                            !.ledger.paid[k] = [d \in RewardDenoms |-> @[d] + res.rewards[d]],
                            !.ledger.truncs[k] = [d \in RewardDenoms |-> @[d] + res.truncs[d]]],
                           err |-> "",
                           coins |-> res.rewards]
                 calculated(s1) == paid(s1, CalculateDelegationRewards(s1, k))
             IN  calculated(ClaimValidatorRewards(s, valAddr))

\* ClaimDelegationRewards: err is "" on success
ClaimDelegationRewards(s, delAddr, valAddr, denom) ==
    LET k == <<delAddr, valAddr, denom>>
    IN  IF denom \notin DOMAIN s.assets
        THEN [st |-> s, err |-> "ErrUnknownAsset", coins |-> [d \in RewardDenoms |-> 0]]
        ELSE IF k \notin DOMAIN s.delegations
        THEN [st |-> s, err |-> "ErrNoDelegatorForAddress", coins |-> [d \in RewardDenoms |-> 0]]
        ELSE LET paid(s1, res) ==
                     IF \E d \in RewardDenoms : res.rewards[d] > s1.bank.RewardsPool[d]
                     THEN [st |-> s, err |-> "ErrInsufficientFunds",
                           coins |-> [d \in RewardDenoms |-> 0]]
                     ELSE [st |-> [s1 EXCEPT
                            !.delegations[k].RewardHistory = s1.validators[valAddr].GlobalRewardHistory,
                            !.delegations[k].LastRewardClaimHeight = s1.ctx.BlockHeight,
                            !.bank.RewardsPool = [d \in RewardDenoms |-> @[d] - res.rewards[d]],
                            !.ledger.paid[k] = [d \in RewardDenoms |-> @[d] + res.rewards[d]],
                            !.ledger.truncs[k] = [d \in RewardDenoms |-> @[d] + res.truncs[d]]],
                           err |-> "",
                           coins |-> res.rewards]
                 calculated(s1) == paid(s1, CalculateDelegationRewards(s1, k))
             IN  calculated(ClaimValidatorRewards(s, valAddr))

----------------------------------------------------------------------------
(* keeper/asset.go: UpdateAllianceAsset and the hooks of the EndBlocker *)

\* the validators of the store, in iteration order
RECURSIVE SeqFilter(_, _)
SeqFilter(seq, set) ==
    IF seq = <<>> THEN <<>>
    ELSE IF Head(seq) \in set THEN <<Head(seq)>> \o SeqFilter(Tail(seq), set)
    ELSE SeqFilter(Tail(seq), set)

IterateAllianceValidatorInfo(s) == SeqFilter(ValSeq, DOMAIN s.validators)

\* InitializeAllianceAssets; mem is the asset list the EndBlocker loaded
RECURSIVE InitialSnapshots(_, _, _)
InitialSnapshots(s, denom, valAddrs) ==
    IF valAddrs = <<>> THEN s
    ELSE InitialSnapshots(CreateInitialRewardWeightChangeSnapshot(s, denom, Head(valAddrs)),
                          denom, Tail(valAddrs))

\* a slip: an asset whose rewards have started is activated whether or not
\* it has been before
RECURSIVE InitializeOverWhetherInitialized(_, _, _)
InitializeOverWhetherInitialized(s, mem, denoms) ==
    IF denoms = <<>> THEN [st |-> s, mem |-> mem]
    ELSE LET denom == Head(denoms)
         IN  IF ~RewardsStarted(mem[denom], s.ctx.BlockTime)
             THEN InitializeOverWhetherInitialized(s, mem, Tail(denoms))
             ELSE LET asset == [mem[denom] EXCEPT !.IsInitialized = TRUE]
                      s1 == InitialSnapshots(s, denom, IterateAllianceValidatorInfo(s))
                  IN  InitializeOverWhetherInitialized(SetAsset(s1, denom, asset),
                                     [mem EXCEPT ![denom] = asset], Tail(denoms))

RECURSIVE InitializeOver(_, _, _)
InitializeOver(s, mem, denoms) ==
    IF denoms = <<>> THEN [st |-> s, mem |-> mem]
    ELSE LET denom == Head(denoms)
         IN  IF mem[denom].IsInitialized \/ ~RewardsStarted(mem[denom], s.ctx.BlockTime)
             THEN InitializeOver(s, mem, Tail(denoms))
             ELSE LET asset == [mem[denom] EXCEPT !.IsInitialized = TRUE]
                      s1 == InitialSnapshots(s, denom, IterateAllianceValidatorInfo(s))
                  IN  InitializeOver(SetAsset(s1, denom, asset),
                                     [mem EXCEPT ![denom] = asset], Tail(denoms))

InitializeAllianceAssets(s, mem) == InitializeOver(s, mem, SeqFilter(DenomSeq, DOMAIN mem))

\* a slip: the snapshot is written before the validator's rewards are flushed
RECURSIVE SnapshotValidatorsBeforeFlush(_, _, _, _)
SnapshotValidatorsBeforeFlush(s, denom, asset, valAddrs) ==
    IF valAddrs = <<>> THEN [st |-> s, err |-> ""]
    ELSE IF Head(valAddrs) \in s.bank.Failing
    THEN [st |-> s, err |-> "ErrClaimValidatorRewards"]
    ELSE LET s1 == SetRewardWeightChangeSnapshot(s, denom, asset, Head(valAddrs))
         IN  SnapshotValidatorsBeforeFlush(ClaimValidatorRewards(s1, Head(valAddrs)),
                                           denom, asset, Tail(valAddrs))

\* UpdateAllianceAsset: the validator loop that flushes each validator's
\* rewards and then snapshots the stored (old) asset weight; it stops at the
\* first validator whose flush returns an error
RECURSIVE SnapshotValidators(_, _, _, _)
SnapshotValidators(s, denom, asset, valAddrs) ==
    IF valAddrs = <<>> THEN [st |-> s, err |-> ""]
    ELSE IF Head(valAddrs) \in s.bank.Failing
    THEN [st |-> s, err |-> "ErrClaimValidatorRewards"]
    ELSE LET s1 == ClaimValidatorRewards(s, Head(valAddrs))
         IN  SnapshotValidators(SetRewardWeightChangeSnapshot(s1, denom, asset, Head(valAddrs)),
                                denom, asset, Tail(valAddrs))

\* GetAssetByDenom: the stored record with its denom, and whether it was found
GetAssetByDenom(s, denom) ==
    IF denom \in DOMAIN s.assets
    THEN [asset |-> [Denom |-> denom, TotalTokens |-> s.assets[denom].TotalTokens,
                     record |-> s.assets[denom]],
          found |-> TRUE]
    ELSE [asset |-> [Denom |-> denom, TotalTokens |-> 0, record |-> <<>>],
          found |-> FALSE]

\* GetAllAssets: every stored record, by denom
GetAllAssets(s) == s.assets

\* deleteAsset: store.Delete of the asset key
deleteAsset(s, denom) ==
    [s EXCEPT !.assets = [d \in (DOMAIN s.assets) \ {denom} |-> s.assets[d]]]

\* a slip: the asset is deleted whatever tokens it holds
DeleteAssetWhateverTheTokens(s, asset) ==
    [st |-> deleteAsset(s, asset.Denom), err |-> ""]

\* DeleteAsset: err is "" on success
DeleteAsset(s, asset) ==
    IF asset.TotalTokens > 0
    THEN [st |-> s, err |-> "cannot delete alliance assets that still have tokens"]
    ELSE [st |-> deleteAsset(s, asset.Denom), err |-> ""]

\* an update that stamps LastRewardChangeTime with the block time whatever changed
UpdateAllianceAssetStampingBlockTime(s, newAsset) ==
    IF newAsset.Denom \notin DOMAIN s.assets
    THEN [st |-> s, err |-> "ErrUnknownAsset"]
    ELSE IF \/ newAsset.RewardWeightRange.Min > newAsset.RewardWeight
            \/ newAsset.RewardWeightRange.Max < newAsset.RewardWeight
    THEN [st |-> s, err |-> "ErrRewardWeightOutOfBound"]
    ELSE LET asset == s.assets[newAsset.Denom]
             lastRewardChangeTime ==
                   s.ctx.BlockTime
             stored(s1) ==
                   [st |-> SetAsset(s1, newAsset.Denom,
                              [asset EXCEPT !.TakeRate = newAsset.TakeRate,
                                            !.RewardWeight = newAsset.RewardWeight,
                                            !.RewardChangeRate = newAsset.RewardChangeRate,
                                            !.RewardChangeInterval = newAsset.RewardChangeInterval,
                                            !.LastRewardChangeTime = lastRewardChangeTime]),
                    err |-> ""]
             queued(flushed) ==
                   IF flushed.err # "" THEN flushed
                   ELSE stored(QueueAssetRebalanceEvent(flushed.st))
         IN  IF newAsset.RewardWeight # asset.RewardWeight
             THEN queued(SnapshotValidators(s, newAsset.Denom, asset,
                                            IterateAllianceValidatorInfo(s)))
             ELSE stored(s)

\* a slip: the error of a flush is dropped and the update goes on
UpdateAllianceAssetIgnoringFlushError(s, newAsset) ==
    IF newAsset.Denom \notin DOMAIN s.assets
    THEN [st |-> s, err |-> "ErrUnknownAsset"]
    ELSE IF \/ newAsset.RewardWeightRange.Min > newAsset.RewardWeight
            \/ newAsset.RewardWeightRange.Max < newAsset.RewardWeight
    THEN [st |-> s, err |-> "ErrRewardWeightOutOfBound"]
    ELSE LET asset == s.assets[newAsset.Denom]
             lastRewardChangeTime ==
                   IF /\ \/ newAsset.RewardChangeRate # asset.RewardChangeRate
                         \/ newAsset.RewardChangeInterval # asset.RewardChangeInterval
                      /\ \/ asset.RewardChangeRate = NewDec(1)
                         \/ asset.RewardChangeInterval = 0
                   THEN s.ctx.BlockTime
                   ELSE newAsset.LastRewardChangeTime
             stored(s1) ==
                   [st |-> SetAsset(s1, newAsset.Denom,
                              [asset EXCEPT !.TakeRate = newAsset.TakeRate,
                                            !.RewardWeight = newAsset.RewardWeight,
                                            !.RewardChangeRate = newAsset.RewardChangeRate,
                                            !.RewardChangeInterval = newAsset.RewardChangeInterval,
                                            !.LastRewardChangeTime = lastRewardChangeTime]),
                    err |-> ""]
             queued(flushed) ==
                   stored(QueueAssetRebalanceEvent(flushed.st))
         IN  IF newAsset.RewardWeight # asset.RewardWeight
             THEN queued(SnapshotValidators(s, newAsset.Denom, asset,
                                            IterateAllianceValidatorInfo(s)))
             ELSE stored(s)

\* a slip: the caller's weight range and start time are stored as well
UpdateAllianceAssetStoringCallerRecord(s, newAsset) ==
    IF newAsset.Denom \notin DOMAIN s.assets
    THEN [st |-> s, err |-> "ErrUnknownAsset"]
    ELSE IF \/ newAsset.RewardWeightRange.Min > newAsset.RewardWeight
            \/ newAsset.RewardWeightRange.Max < newAsset.RewardWeight
    THEN [st |-> s, err |-> "ErrRewardWeightOutOfBound"]
    ELSE LET asset == s.assets[newAsset.Denom]
             lastRewardChangeTime ==
                   IF /\ \/ newAsset.RewardChangeRate # asset.RewardChangeRate
                         \/ newAsset.RewardChangeInterval # asset.RewardChangeInterval
                      /\ \/ asset.RewardChangeRate = NewDec(1)
                         \/ asset.RewardChangeInterval = 0
                   THEN s.ctx.BlockTime
                   ELSE newAsset.LastRewardChangeTime
             stored(s1) ==
                   [st |-> SetAsset(s1, newAsset.Denom,
                              [asset EXCEPT !.TakeRate = newAsset.TakeRate,
                                            !.RewardWeight = newAsset.RewardWeight,
                                            !.RewardWeightRange = newAsset.RewardWeightRange,
                                            !.RewardStartTime = newAsset.RewardStartTime,
                                            !.RewardChangeRate = newAsset.RewardChangeRate,
                                            !.RewardChangeInterval = newAsset.RewardChangeInterval,
                                            !.LastRewardChangeTime = lastRewardChangeTime]),
                    err |-> ""]
             queued(flushed) ==
                   IF flushed.err # "" THEN flushed
                   ELSE stored(QueueAssetRebalanceEvent(flushed.st))
         IN  IF newAsset.RewardWeight # asset.RewardWeight
             THEN queued(SnapshotValidators(s, newAsset.Denom, asset,
                                            IterateAllianceValidatorInfo(s)))
             ELSE stored(s)

\* a slip: snapshots are written and the rebalance queued whatever changes
UpdateAllianceAssetAlwaysSnapshotting(s, newAsset) ==
    IF newAsset.Denom \notin DOMAIN s.assets
    THEN [st |-> s, err |-> "ErrUnknownAsset"]
    ELSE IF \/ newAsset.RewardWeightRange.Min > newAsset.RewardWeight
            \/ newAsset.RewardWeightRange.Max < newAsset.RewardWeight
    THEN [st |-> s, err |-> "ErrRewardWeightOutOfBound"]
    ELSE LET asset == s.assets[newAsset.Denom]
             lastRewardChangeTime ==
                   IF /\ \/ newAsset.RewardChangeRate # asset.RewardChangeRate
                         \/ newAsset.RewardChangeInterval # asset.RewardChangeInterval
                      /\ \/ asset.RewardChangeRate = NewDec(1)
                         \/ asset.RewardChangeInterval = 0
                   THEN s.ctx.BlockTime
                   ELSE newAsset.LastRewardChangeTime
             stored(s1) ==
                   [st |-> SetAsset(s1, newAsset.Denom,
                              [asset EXCEPT !.TakeRate = newAsset.TakeRate,
                                            !.RewardWeight = newAsset.RewardWeight,
                                            !.RewardChangeRate = newAsset.RewardChangeRate,
                                            !.RewardChangeInterval = newAsset.RewardChangeInterval,
                                            !.LastRewardChangeTime = lastRewardChangeTime]),
                    err |-> ""]
             queued(flushed) ==
                   IF flushed.err # "" THEN flushed
                   ELSE stored(QueueAssetRebalanceEvent(flushed.st))
         IN  queued(SnapshotValidators(s, newAsset.Denom, asset,
                                       IterateAllianceValidatorInfo(s)))

\* UpdateAllianceAsset: err is "" on success
UpdateAllianceAsset(s, newAsset) ==
    IF newAsset.Denom \notin DOMAIN s.assets
    THEN [st |-> s, err |-> "ErrUnknownAsset"]
    ELSE IF \/ newAsset.RewardWeightRange.Min > newAsset.RewardWeight
            \/ newAsset.RewardWeightRange.Max < newAsset.RewardWeight
    THEN [st |-> s, err |-> "ErrRewardWeightOutOfBound"]
    ELSE LET asset == s.assets[newAsset.Denom]
             lastRewardChangeTime ==
                   IF /\ \/ newAsset.RewardChangeRate # asset.RewardChangeRate
                         \/ newAsset.RewardChangeInterval # asset.RewardChangeInterval
                      /\ \/ asset.RewardChangeRate = NewDec(1)
                         \/ asset.RewardChangeInterval = 0
                   THEN s.ctx.BlockTime
                   ELSE newAsset.LastRewardChangeTime
             stored(s1) ==
                   [st |-> SetAsset(s1, newAsset.Denom,
                              [asset EXCEPT !.TakeRate = newAsset.TakeRate,
                                            !.RewardWeight = newAsset.RewardWeight,
                                            !.RewardChangeRate = newAsset.RewardChangeRate,
                                            !.RewardChangeInterval = newAsset.RewardChangeInterval,
                                            !.LastRewardChangeTime = lastRewardChangeTime]),
                    err |-> ""]
             queued(flushed) ==
                   IF flushed.err # "" THEN flushed
                   ELSE stored(QueueAssetRebalanceEvent(flushed.st))
         IN  IF newAsset.RewardWeight # asset.RewardWeight
             THEN queued(SnapshotValidators(s, newAsset.Denom, asset,
                                            IterateAllianceValidatorInfo(s)))
             ELSE stored(s)

\* the asset record as UpdateAllianceAsset receives it from the decay hook
WithDenom(asset, denom) ==
    [Denom |-> denom, RewardWeight |-> asset.RewardWeight,
     RewardWeightRange |-> asset.RewardWeightRange, TakeRate |-> asset.TakeRate,
     RewardChangeRate |-> asset.RewardChangeRate,
     RewardChangeInterval |-> asset.RewardChangeInterval,
     LastRewardChangeTime |-> asset.LastRewardChangeTime]

\* a decay that counts one interval however many have elapsed
DecayedAssetOneInterval(asset, blockTime) ==
    LET weight == DecMul(asset.RewardWeight, asset.RewardChangeRate)
        atLeastMin == IF weight < asset.RewardWeightRange.Min
                      THEN asset.RewardWeightRange.Min ELSE weight
        clamped == IF atLeastMin > asset.RewardWeightRange.Max
                   THEN asset.RewardWeightRange.Max ELSE atLeastMin
    IN  [asset EXCEPT !.RewardWeight = clamped,
                      !.LastRewardChangeTime = @ + asset.RewardChangeInterval]

\* RewardWeightChangeHook: one asset's decayed record
DecayedAsset(asset, blockTime) ==
    LET intervalsSinceLastClaim ==
            (blockTime - asset.LastRewardChangeTime) \div asset.RewardChangeInterval
        multiplier == DecPower(asset.RewardChangeRate, intervalsSinceLastClaim)
        weight == DecMul(asset.RewardWeight, multiplier)
        atLeastMin == IF weight < asset.RewardWeightRange.Min
                      THEN asset.RewardWeightRange.Min ELSE weight
        clamped == IF atLeastMin > asset.RewardWeightRange.Max
                   THEN asset.RewardWeightRange.Max ELSE atLeastMin
    IN  [asset EXCEPT !.RewardWeight = clamped,
                      !.LastRewardChangeTime =
                          @ + asset.RewardChangeInterval * intervalsSinceLastClaim]

\* a slip: the hook decays copies and leaves the loaded asset list as it was
RECURSIVE RewardWeightChangeOverOnCopies(_, _, _)
RewardWeightChangeOverOnCopies(s, mem, denoms) ==
    IF denoms = <<>> THEN [st |-> s, mem |-> mem, err |-> ""]
    ELSE LET denom == Head(denoms)
             asset == mem[denom]
         IN  IF asset.RewardChangeInterval = 0 \/ asset.RewardChangeRate = NewDec(1)
             THEN RewardWeightChangeOverOnCopies(s, mem, Tail(denoms))
             ELSE IF asset.LastRewardChangeTime + asset.RewardChangeInterval > s.ctx.BlockTime
             THEN RewardWeightChangeOverOnCopies(s, mem, Tail(denoms))
             ELSE LET updated(decayed, res) ==
                          IF res.err # ""
                          THEN [st |-> res.st, mem |-> mem, err |-> res.err]
                          ELSE RewardWeightChangeOverOnCopies(res.st, mem, Tail(denoms))
                      update(decayed) ==
                          updated(decayed, UpdateAllianceAsset(QueueAssetRebalanceEvent(s),
                                                               WithDenom(decayed, denom)))
                  IN  update(DecayedAsset(asset, s.ctx.BlockTime))

RECURSIVE RewardWeightChangeOver(_, _, _)
RewardWeightChangeOver(s, mem, denoms) ==
    IF denoms = <<>> THEN [st |-> s, mem |-> mem, err |-> ""]
    ELSE LET denom == Head(denoms)
             asset == mem[denom]
         IN  IF asset.RewardChangeInterval = 0 \/ asset.RewardChangeRate = NewDec(1)
             THEN RewardWeightChangeOver(s, mem, Tail(denoms))
             ELSE IF asset.LastRewardChangeTime + asset.RewardChangeInterval > s.ctx.BlockTime
             THEN RewardWeightChangeOver(s, mem, Tail(denoms))
             ELSE LET updated(decayed, res) ==
                          IF res.err # ""
                          THEN [st |-> res.st, mem |-> [mem EXCEPT ![denom] = decayed],
                                err |-> res.err]
                          ELSE RewardWeightChangeOver(res.st, [mem EXCEPT ![denom] = decayed],
                                                      Tail(denoms))
                      update(decayed) ==
                          updated(decayed, UpdateAllianceAsset(QueueAssetRebalanceEvent(s),
                                                               WithDenom(decayed, denom)))
                  IN  update(DecayedAsset(asset, s.ctx.BlockTime))

\* a hook that queues the rebalance before it looks at any asset
RewardWeightChangeHookQueueingFirst(s, mem) ==
    RewardWeightChangeOver(QueueAssetRebalanceEvent(s), mem, SeqFilter(DenomSeq, DOMAIN mem))

RewardWeightChangeHook(s, mem) == RewardWeightChangeOver(s, mem, SeqFilter(DenomSeq, DOMAIN mem))

----------------------------------------------------------------------------
(* keeper/params.go and the take-rate hook of keeper/asset.go *)

LastRewardClaimTime(s) == s.params.LastTakeRateClaimTime

RewardClaimInterval(s) == s.params.TakeRateClaimInterval

\* a setter that stores the block time whatever time it is given
SetLastRewardClaimTimeToBlockTime(s, t) ==
    [s EXCEPT !.params.LastTakeRateClaimTime = s.ctx.BlockTime]

SetLastRewardClaimTime(s, t) == [s EXCEPT !.params.LastTakeRateClaimTime = t]

\* an asset loop that reduces every eligible asset, however little is left
RECURSIVE DeductOverWithoutFloor(_, _, _)
DeductOverWithoutFloor(acc, intervalsSinceLastClaim, denoms) ==
    IF denoms = <<>> THEN acc
    ELSE LET denom == Head(denoms)
             asset == acc.mem[denom]
             multiplier == DecPower(NewDec(1) - asset.TakeRate, intervalsSinceLastClaim)
             newAmount == DecMulInt(multiplier, asset.TotalTokens)
             deducted == [asset EXCEPT !.TotalTokens = TruncateInt(newAmount)]
         IN  IF asset.TotalTokens > 0 /\ asset.TakeRate > 0
                /\ RewardsStarted(asset, acc.st.ctx.BlockTime)
             THEN DeductOverWithoutFloor(
                      [st |-> SetAsset(acc.st, denom, deducted),
                       mem |-> [acc.mem EXCEPT ![denom] = deducted],
                       coins |-> [acc.coins EXCEPT ![denom] =
                                     @ + asset.TotalTokens - deducted.TotalTokens],
                       count |-> acc.count + 1],
                      intervalsSinceLastClaim, Tail(denoms))
             ELSE DeductOverWithoutFloor(acc, intervalsSinceLastClaim, Tail(denoms))

\* the loop of DeductAssetsWithTakeRate: acc carries the store, the loaded
\* assets, the coins collected (amount 0: no coin of the denom) and the count
\* of eligible assets
RECURSIVE DeductOver(_, _, _)
DeductOver(acc, intervalsSinceLastClaim, denoms) ==
    IF denoms = <<>> THEN acc
    ELSE LET denom == Head(denoms)
             asset == acc.mem[denom]
             multiplier == DecPower(NewDec(1) - asset.TakeRate, intervalsSinceLastClaim)
             newAmount == DecMulInt(multiplier, asset.TotalTokens)
             deducted == [asset EXCEPT !.TotalTokens = TruncateInt(newAmount)]
         IN  IF asset.TotalTokens > 0 /\ asset.TakeRate > 0
                /\ RewardsStarted(asset, acc.st.ctx.BlockTime)
             THEN IF newAmount <= NewDec(1)
                  THEN DeductOver([acc EXCEPT !.count = @ + 1],
                                  intervalsSinceLastClaim, Tail(denoms))
                  ELSE DeductOver([st |-> SetAsset(acc.st, denom, deducted),
                                   mem |-> [acc.mem EXCEPT ![denom] = deducted],
                                   coins |-> [acc.coins EXCEPT ![denom] =
                                                 @ + asset.TotalTokens - deducted.TotalTokens],
                                   count |-> acc.count + 1],
                                  intervalsSinceLastClaim, Tail(denoms))
             ELSE DeductOver(acc, intervalsSinceLastClaim, Tail(denoms))

\* a take-rate run that reduces the assets and keeps the coins in the module account
DeductAssetsWithTakeRateKeepingCoins(s, mem, lastClaim) ==
    IF lastClaim = ZeroTime
    THEN [st |-> SetLastRewardClaimTime(s, s.ctx.BlockTime), mem |-> mem,
          coins |-> [d \in Denoms |-> 0]]
    ELSE LET rewardClaimInterval == RewardClaimInterval(s)
             intervalsSinceLastClaim == (s.ctx.BlockTime - lastClaim) \div rewardClaimInterval
             collected(res) ==
                 IF res.count = 0
                 THEN [st |-> SetLastRewardClaimTime(res.st, s.ctx.BlockTime), mem |-> res.mem,
                       coins |-> res.coins]
                 ELSE IF \E d \in Denoms : res.coins[d] > 0
                 THEN [st |-> SetLastRewardClaimTime(
                            res.st, lastClaim + rewardClaimInterval * intervalsSinceLastClaim),
                       mem |-> res.mem, coins |-> res.coins]
                 ELSE [st |-> res.st, mem |-> res.mem, coins |-> res.coins]
         IN  collected(DeductOver([st |-> s, mem |-> mem,
                                   coins |-> [d \in Denoms |-> 0], count |-> 0],
                                  intervalsSinceLastClaim, SeqFilter(DenomSeq, DOMAIN mem)))

DeductAssetsWithTakeRate(s, mem, lastClaim) ==
    IF lastClaim = ZeroTime
    THEN [st |-> SetLastRewardClaimTime(s, s.ctx.BlockTime), mem |-> mem,
          coins |-> [d \in Denoms |-> 0]]
    ELSE LET rewardClaimInterval == RewardClaimInterval(s)
             intervalsSinceLastClaim == (s.ctx.BlockTime - lastClaim) \div rewardClaimInterval
             collected(res) ==
                 IF res.count = 0
                 THEN [st |-> SetLastRewardClaimTime(res.st, s.ctx.BlockTime), mem |-> res.mem,
                       coins |-> res.coins]
                 ELSE IF \E d \in Denoms : res.coins[d] > 0
                 THEN [st |-> SetLastRewardClaimTime(
                            Called([res.st EXCEPT
                                      !.bank.Module = [d \in Denoms |-> @[d] - res.coins[d]],
                                      !.bank.FeeCollector = [d \in Denoms |-> @[d] + res.coins[d]]],
                                   <<"SendCoinsFromModuleToModule", res.coins>>),
                            lastClaim + rewardClaimInterval * intervalsSinceLastClaim),
                       mem |-> res.mem, coins |-> res.coins]
                 ELSE [st |-> res.st, mem |-> res.mem, coins |-> res.coins]
         IN  collected(DeductOver([st |-> s, mem |-> mem,
                                   coins |-> [d \in Denoms |-> 0], count |-> 0],
                                  intervalsSinceLastClaim, SeqFilter(DenomSeq, DOMAIN mem)))

\* a hook that fires as soon as the claim interval has elapsed
DeductAssetsHookAtInterval(s, mem) ==
    LET last == LastRewardClaimTime(s)
        interval == RewardClaimInterval(s)
    IN  IF last = ZeroTime \/ s.ctx.BlockTime >= last + interval
        THEN DeductAssetsWithTakeRate(s, mem, last)
        ELSE [st |-> s, mem |-> mem, coins |-> [d \in Denoms |-> 0]]

\* DeductAssetsHook; the zero time plus any interval lies before every block time
DeductAssetsHook(s, mem) ==
    LET last == LastRewardClaimTime(s)
        interval == RewardClaimInterval(s)
    IN  IF last = ZeroTime \/ s.ctx.BlockTime > last + interval
        THEN DeductAssetsWithTakeRate(s, mem, last)
        ELSE [st |-> s, mem |-> mem, coins |-> [d \in Denoms |-> 0]]

----------------------------------------------------------------------------
(* The staking and bank keepers the rebalancer calls (cosmos-sdk x/staking),
   for validators that have not been slashed *)

IsBonded(val) == val.Status = "bonded"

\* Validator.TokensFromShares
TokensFromShares(val, shares) == DecQuo(DecMulInt(shares, val.Tokens), val.DelegatorShares)

\* Validator.SharesFromTokens
SharesFromTokens(val, amt) == DecMulInt(val.DelegatorShares, amt) \div val.Tokens

BondedTokensOf(val) == IF IsBonded(val) THEN val.Tokens ELSE 0

\* stakingKeeper.TotalBondedTokens: the balance of the bonded pool
RECURSIVE BondedTokensOver(_, _)
BondedTokensOver(s, valAddrs) ==
    IF valAddrs = <<>> THEN 0
    ELSE BondedTokensOf(s.validators[Head(valAddrs)]) + BondedTokensOver(s, Tail(valAddrs))

TotalBondedTokens(s) == BondedTokensOver(s, IterateAllianceValidatorInfo(s))

AllianceBondedOf(val) ==
    IF IsBonded(val) /\ val.ModuleShares > 0
    THEN TruncateInt(TokensFromShares(val, val.ModuleShares))
    ELSE 0

\* GetAllianceBondedAmount: what the module account has delegated to bonded validators
RECURSIVE AllianceBondedOver(_, _)
AllianceBondedOver(s, valAddrs) ==
    IF valAddrs = <<>> THEN 0
    ELSE AllianceBondedOf(s.validators[Head(valAddrs)]) + AllianceBondedOver(s, Tail(valAddrs))

GetAllianceBondedAmount(s) == AllianceBondedOver(s, IterateAllianceValidatorInfo(s))

\* bankKeeper.MintCoins to the module account followed by stakingKeeper.Delegate
MintCoins(s, amount) ==
    Called([s EXCEPT !.bank.Minted = @ + amount], <<"MintCoins", amount>>)

Delegate(s, valAddr, bondAmount) ==
    LET val == s.validators[valAddr]
        issued == IF val.DelegatorShares = 0 THEN NewDec(bondAmount)
                  ELSE SharesFromTokens(val, bondAmount)
    IN  Called([s EXCEPT !.validators[valAddr].Tokens = @ + bondAmount,
                         !.validators[valAddr].DelegatorShares = @ + issued,
                         !.validators[valAddr].ModuleShares = @ + issued],
               <<"Delegate", valAddr, bondAmount>>)

\* stakingKeeper.ValidateUnbondAmount: the shares to unbond and the error
ValidateUnbondAmount(s, valAddr, unbondAmount) ==
    LET val == s.validators[valAddr]
        shares == SharesFromTokens(val, unbondAmount)
    IN  IF val.ModuleShares = 0 THEN [shares |-> 0, err |-> "ErrNoDelegation"]
        ELSE IF shares > val.ModuleShares THEN [shares |-> 0, err |-> "ErrBadSharesAmount"]
        ELSE [shares |-> shares, err |-> ""]

\* stakingKeeper.Unbond followed by bankKeeper.BurnCoins on the bonded pool
Unbond(s, valAddr, sharesToUnbond) ==
    LET val == s.validators[valAddr]
        tokensToBurn == IF val.DelegatorShares = sharesToUnbond THEN val.Tokens
                        ELSE TruncateInt(TokensFromShares(val, sharesToUnbond))
    IN  [st |-> Called([s EXCEPT !.validators[valAddr].Tokens = @ - tokensToBurn,
                                 !.validators[valAddr].DelegatorShares = @ - sharesToUnbond,
                                 !.validators[valAddr].ModuleShares = @ - sharesToUnbond],
                       <<"Unbond", valAddr, sharesToUnbond>>),
         tokensToBurn |-> tokensToBurn]

BurnCoins(s, amount) ==
    Called([s EXCEPT !.bank.Burned = @ + amount], <<"BurnCoins", amount>>)

----------------------------------------------------------------------------
(* keeper/asset.go: the rebalancer *)

\* unbondedValidatorShares.AmountOf(denom): the shares of the asset held on
\* validators that are not bonded
RECURSIVE UnbondedSharesOver(_, _, _)
UnbondedSharesOver(s, denom, valAddrs) ==
    IF valAddrs = <<>> THEN 0
    ELSE LET val == s.validators[Head(valAddrs)]
         IN  (IF IsBonded(val) THEN 0 ELSE ValidatorSharesWithDenom(val, denom))
             + UnbondedSharesOver(s, denom, Tail(valAddrs))

unbondedValidatorShares(s) ==
    [denom \in Denoms |-> UnbondedSharesOver(s, denom, IterateAllianceValidatorInfo(s))]

bondedValidators(s) ==
    SeqFilter(IterateAllianceValidatorInfo(s),
              {v \in DOMAIN s.validators : IsBonded(s.validators[v])})

\* a slip: the shares on validators that are not bonded stay in the denominator
bondedValidatorSharesOfAll(asset, unbondedShares) == asset.TotalValidatorShares

\* the denominator of one asset: its shares on bonded validators
bondedValidatorShares(asset, unbondedShares) == asset.TotalValidatorShares - unbondedShares

\* a slip: the validator's share of the asset is left out of the product
expectedBondAmountOfAssetUnshared(asset, valShares, nativeBondAmount, unbondedShares) ==
    IF valShares > 0 /\ bondedValidatorShares(asset, unbondedShares) > 0
    THEN DecMulInt(asset.RewardWeight, nativeBondAmount)
    ELSE 0

\* the contribution of one started asset to a validator's expected bond amount
expectedBondAmountOfAsset(asset, valShares, nativeBondAmount, unbondedShares) ==
    LET expectedBondAmountForAsset == DecMulInt(asset.RewardWeight, nativeBondAmount)
    IN  IF valShares > 0 /\ bondedValidatorShares(asset, unbondedShares) > 0
        THEN DecMul(DecQuo(valShares, bondedValidatorShares(asset, unbondedShares)),
                    expectedBondAmountForAsset)
        ELSE 0

RECURSIVE ExpectedOver(_, _, _, _, _, _)
ExpectedOver(val, mem, blockTime, nativeBondAmount, unbonded, denoms) ==
    IF denoms = <<>> THEN 0
    ELSE LET denom == Head(denoms)
             rest == ExpectedOver(val, mem, blockTime, nativeBondAmount, unbonded, Tail(denoms))
         IN  IF ~RewardsStarted(mem[denom], blockTime) THEN rest
             ELSE expectedBondAmountOfAsset(mem[denom], ValidatorSharesWithDenom(val, denom),
                                            nativeBondAmount, unbonded[denom]) + rest

expectedBondAmount(s, mem, valAddr, nativeBondAmount, unbonded) ==
    ExpectedOver(s.validators[valAddr], mem, s.ctx.BlockTime, nativeBondAmount, unbonded,
                 SeqFilter(DenomSeq, DOMAIN mem))

\* a slip: the module's existing delegation is not looked up
currentBondedAmountNotFound(s, valAddr) == 0

\* what the module account has delegated to the validator, as tokens
currentBondedAmount(s, valAddr) ==
    IF s.validators[valAddr].ModuleShares > 0
    THEN TokensFromShares(s.validators[valAddr], s.validators[valAddr].ModuleShares)
    ELSE 0

\* a slip: the validator's rewards are flushed after its shares were changed
RebalanceValidatorFlushingLast(s, mem, valAddr, nativeBondAmount, unbonded) ==
    LET s0 == IF \E denom \in DOMAIN mem : ~RewardsStarted(mem[denom], s.ctx.BlockTime)
              THEN QueueAssetRebalanceEvent(s) ELSE s
        bond(bondAmount) ==
            IF bondAmount = 0 THEN [st |-> s0, err |-> ""]
            ELSE [st |-> ClaimValidatorRewards(Delegate(MintCoins(s0, bondAmount),
                                                        valAddr, bondAmount), valAddr),
                  err |-> ""]
        burn(unbonded1) == [st |-> BurnCoins(unbonded1.st, unbonded1.tokensToBurn), err |-> ""]
        unbondShares(validated) ==
            IF validated.err # "" THEN [st |-> s0, err |-> validated.err]
            ELSE burn(Unbond(ClaimValidatorRewards(s0, valAddr), valAddr, validated.shares))
        unbond(unbondAmount) ==
            IF unbondAmount = 0 THEN [st |-> s0, err |-> ""]
            ELSE unbondShares(ValidateUnbondAmount(s0, valAddr, unbondAmount))
        balance(current, expected) ==
            IF expected > current THEN bond(TruncateInt(expected - current))
            ELSE IF expected < current THEN unbond(TruncateInt(current - expected))
            ELSE [st |-> s0, err |-> ""]
    IN  balance(currentBondedAmount(s, valAddr),
                expectedBondAmount(s, mem, valAddr, nativeBondAmount, unbonded))

\* the body of the loop over the bonded validators
RebalanceValidator(s, mem, valAddr, nativeBondAmount, unbonded) ==
    LET s0 == IF \E denom \in DOMAIN mem : ~RewardsStarted(mem[denom], s.ctx.BlockTime)
              THEN QueueAssetRebalanceEvent(s) ELSE s
        bond(bondAmount) ==
            IF bondAmount = 0 THEN [st |-> s0, err |-> ""]
            ELSE [st |-> Delegate(ClaimValidatorRewards(MintCoins(s0, bondAmount), valAddr),
                                  valAddr, bondAmount),
                  err |-> ""]
        burn(unbonded1) == [st |-> BurnCoins(unbonded1.st, unbonded1.tokensToBurn), err |-> ""]
        unbondShares(validated) ==
            IF validated.err # "" THEN [st |-> s0, err |-> validated.err]
            ELSE burn(Unbond(ClaimValidatorRewards(s0, valAddr), valAddr, validated.shares))
        unbond(unbondAmount) ==
            IF unbondAmount = 0 THEN [st |-> s0, err |-> ""]
            ELSE unbondShares(ValidateUnbondAmount(s0, valAddr, unbondAmount))
        balance(current, expected) ==
            IF expected > current THEN bond(TruncateInt(expected - current))
            ELSE IF expected < current THEN unbond(TruncateInt(current - expected))
            ELSE [st |-> s0, err |-> ""]
    IN  balance(currentBondedAmount(s, valAddr),
                expectedBondAmount(s, mem, valAddr, nativeBondAmount, unbonded))

RECURSIVE RebalanceOver(_, _, _, _, _)
RebalanceOver(s, mem, valAddrs, nativeBondAmount, unbonded) ==
    IF valAddrs = <<>> THEN [st |-> s, err |-> ""]
    ELSE LET next(res) ==
                 IF res.err # "" THEN res
                 ELSE RebalanceOver(res.st, mem, Tail(valAddrs), nativeBondAmount, unbonded)
         IN  next(RebalanceValidator(s, mem, Head(valAddrs), nativeBondAmount, unbonded))

\* the native stake: total bonded tokens less what the module has bonded
nativeBondAmount(s) == TotalBondedTokens(s) - GetAllianceBondedAmount(s)

RebalanceBondTokenWeights(s, mem) ==
    RebalanceOver(Called(s, <<"RebalanceBondTokenWeights">>), mem, bondedValidators(s),
                  nativeBondAmount(s), unbondedValidatorShares(s))

RebalanceHook(s, mem) ==
    LET event == ConsumeAssetRebalanceEvent(s)
    IN  IF event.consumed THEN RebalanceBondTokenWeights(event.st, mem)
        ELSE [st |-> s, err |-> ""]

----------------------------------------------------------------------------
(* abci.go: EndBlocker.  The modelled state holds no unbonding or
   redelegation entries, so CompleteRedelegations and CompleteUndelegations
   find nothing to complete.  A step whose collaborator fails returns an
   error: which step does, if any, is the environment's choice. *)

EndBlockerSteps ==
    <<"CompleteRedelegations", "CompleteUndelegations", "InitializeAllianceAssets",
      "DeductAssetsHook", "RewardWeightChangeHook", "RebalanceHook">>

\* the steps whose error the EndBlocker checks
Failures ==
    {"CompleteUndelegations", "DeductAssetsHook", "RewardWeightChangeHook", "RebalanceHook"}

\* a step of the EndBlocker begins
Step(s, name) == [s EXCEPT !.ledger.steps = Append(@, name)]

\* panic(fmt.Errorf(...)): the steps so far and the error
Panic(s, err) == [st |-> s, err |-> err]

\* a slip: the rebalance runs before the decay
EndBlockerRebalancingFirst(s, failing) ==
    LET decayed(res) ==
            IF res.err # "" \/ failing = "RewardWeightChangeHook"
            THEN Panic(res.st, "failed to update assets reward weights")
            ELSE [st |-> res.st, err |-> ""]
        decay(rebalanced, mem) ==
            IF rebalanced.err # "" \/ failing = "RebalanceHook"
            THEN Panic(rebalanced.st, "failed to rebalance assets")
            ELSE decayed(RewardWeightChangeHook(Step(rebalanced.st, "RewardWeightChangeHook"),
                                                mem))
        rebalance(deducted) ==
            IF failing = "DeductAssetsHook"
            THEN Panic(deducted.st, "failed to deduct take rate from alliance")
            ELSE decay(RebalanceHook(Step(deducted.st, "RebalanceHook"), deducted.mem),
                       deducted.mem)
        deduct(initialized) ==
            rebalance(DeductAssetsHook(Step(initialized.st, "DeductAssetsHook"),
                                       initialized.mem))
        initialize(completed) ==
            IF failing = "CompleteUndelegations"
            THEN Panic(completed, "failed to complete undelegations")
            ELSE deduct(InitializeAllianceAssets(Step(completed, "InitializeAllianceAssets"),
                                                 GetAllAssets(completed)))
    IN  initialize(Step(Step(s, "CompleteRedelegations"), "CompleteUndelegations"))

\* EndBlocker when the collaborators of the step failing, if any, return an
\* error: err is "" when the block goes on, the panic's message otherwise
EndBlockerOutcome(s, failing) ==
    LET rebalanced(res) ==
            IF res.err # "" \/ failing = "RebalanceHook"
            THEN Panic(res.st, "failed to rebalance assets")
            ELSE [st |-> res.st, err |-> ""]
        rebalance(decayed) ==
            IF decayed.err # "" \/ failing = "RewardWeightChangeHook"
            THEN Panic(decayed.st, "failed to update assets reward weights")
            ELSE rebalanced(RebalanceHook(Step(decayed.st, "RebalanceHook"), decayed.mem))
        decay(deducted) ==
            IF failing = "DeductAssetsHook"
            THEN Panic(deducted.st, "failed to deduct take rate from alliance")
            ELSE rebalance(RewardWeightChangeHook(Step(deducted.st, "RewardWeightChangeHook"),
                                                  deducted.mem))
        deduct(initialized) ==
            decay(DeductAssetsHook(Step(initialized.st, "DeductAssetsHook"), initialized.mem))
        initialize(completed) ==
            IF failing = "CompleteUndelegations"
            THEN Panic(completed, "failed to complete undelegations")
            ELSE deduct(InitializeAllianceAssets(Step(completed, "InitializeAllianceAssets"),
                                                 GetAllAssets(completed)))
    IN  initialize(Step(Step(s, "CompleteRedelegations"), "CompleteUndelegations"))

\* EndBlocker with no collaborator failing
EndBlocker(s) == EndBlockerOutcome(s, "none")

----------------------------------------------------------------------------
(* States after genesis and the first delegations *)

EmptyHistory == [d \in {} |-> 0]

\* types.NewAllianceAsset
NewAllianceAsset(rewardWeight, minRewardWeight, maxRewardWeight, takeRate, rewardStartTime) ==
    [RewardWeight |-> rewardWeight,
     RewardWeightRange |-> [Min |-> minRewardWeight, Max |-> maxRewardWeight],
     TakeRate |-> takeRate,
     TotalTokens |-> 0,
     TotalValidatorShares |-> 0,
     RewardStartTime |-> rewardStartTime,
     RewardChangeRate |-> NewDec(1),
     RewardChangeInterval |-> 0,
     LastRewardChangeTime |-> rewardStartTime,
     IsInitialized |-> FALSE]

\* a slip: the new record is stored over an existing one
CreateAllianceOverwriting(s, req) ==
    [st |-> SetAsset(s, req.Denom,
               [NewAllianceAsset(req.RewardWeight, req.RewardWeightRange.Min,
                                 req.RewardWeightRange.Max, req.TakeRate,
                                 s.ctx.BlockTime + s.params.RewardDelayTime)
                  EXCEPT !.RewardChangeRate = req.RewardChangeRate,
                         !.RewardChangeInterval = req.RewardChangeInterval]),
     err |-> ""]

\* CreateAlliance: a new asset whose rewards start after the reward delay;
\* err is "" on success
CreateAlliance(s, req) ==
    IF GetAssetByDenom(s, req.Denom).found
    THEN [st |-> s, err |-> "ErrAlreadyExists"]
    ELSE [st |-> SetAsset(s, req.Denom,
                    [NewAllianceAsset(req.RewardWeight, req.RewardWeightRange.Min,
                                      req.RewardWeightRange.Max, req.TakeRate,
                                      s.ctx.BlockTime + s.params.RewardDelayTime)
                       EXCEPT !.RewardChangeRate = req.RewardChangeRate,
                              !.RewardChangeInterval = req.RewardChangeInterval]),
          err |-> ""]

\* the asset after delegations of tokens in total, one share per token
Delegated(asset, tokens) ==
    [asset EXCEPT !.TotalTokens = tokens, !.TotalValidatorShares = NewDec(tokens)]

\* an alliance validator holding the given whole tokens per asset, with
\* native stake of its own and nothing delegated by the module yet
NewAllianceValidator(tokensByDenom, status, native) ==
    [ValidatorShares |-> [d \in Denoms |-> NewDec(tokensByDenom[d])],
     TotalDelegatorShares |-> [d \in Denoms |-> NewDec(tokensByDenom[d])],
     GlobalRewardHistory |-> EmptyHistory,
     Outstanding |-> [d \in RewardDenoms |-> 0],
     Status |-> status,
     Tokens |-> native,
     DelegatorShares |-> NewDec(native),
     ModuleShares |-> 0]

\* types.NewDelegation
NewDelegation(height, tokens, rewardHistory) ==
    [Shares |-> NewDec(tokens), RewardHistory |-> rewardHistory,
     LastRewardClaimHeight |-> height]

NewLedger(keys) ==
    [owed |-> [k \in keys |-> [d \in RewardDenoms |-> 0]],
     paid |-> [k \in keys |-> [d \in RewardDenoms |-> 0]],
     truncs |-> [k \in keys |-> [d \in RewardDenoms |-> 0]],
     deposited |-> [d \in RewardDenoms |-> 0],
     calls |-> <<>>,
     steps |-> <<>>,
     last |-> "Init",
     err |-> "",
     key |-> <<>>,
     coins |-> [d \in RewardDenoms |-> 0],
     deposits |-> 0,
     updates |-> 0,
     changes |-> 0]

NewBank(tokensByDenom) ==
    [RewardsPool |-> [d \in RewardDenoms |-> 0],
     Withdrawn |-> [d \in RewardDenoms |-> 0],
     Failing |-> {},
     Module |-> tokensByDenom,
     FeeCollector |-> [d \in Denoms |-> 0],
     Minted |-> 0,
     Burned |-> 0]

\* the running handler starts with an empty call record
Begin(s, name) ==
    [s EXCEPT !.ledger.calls = <<>>, !.ledger.steps = <<>>, !.ledger.last = name,
              !.ledger.err = "",
              !.ledger.key = <<>>, !.ledger.coins = [d \in RewardDenoms |-> 0]]

\* a failed transaction is rolled back; only its error is recorded
Failed(s, name, err) == [Begin(s, name) EXCEPT !.ledger.err = err]

----------------------------------------------------------------------------
(* Rewards: one validator, "alliance" active since genesis, "alliance2"
   with its reward start time still ahead *)

StartTime == 1
StartHeight == 1
DelayedStart == 2
DepositAmounts == {2}
DecayRates == {NewDec(1), NewDec(1) \div 2}
DelayedWeights == {NewDec(1), NewDec(10)}

RewardKeys ==
    {<<"user1", "val1", "alliance">>, <<"user2", "val1", "alliance2">>}

InitReward ==
    /\ \E rate \in DecayRates, weight2 \in DelayedWeights :
          assets = [d \in Denoms |->
             IF d = "alliance"
             THEN [Delegated(NewAllianceAsset(NewDec(2), 0, NewDec(5), 0, ZeroTime), 1)
                     EXCEPT !.IsInitialized = TRUE,
                            !.RewardChangeRate = rate,
                            !.RewardChangeInterval = IF rate = NewDec(1) THEN 0 ELSE 1,
                            !.LastRewardChangeTime = StartTime]
             ELSE Delegated(NewAllianceAsset(weight2, 0, NewDec(12), 0, DelayedStart), 1)]
    /\ validators = [v \in {"val1"} |->
                        NewAllianceValidator([d \in Denoms |-> 1], "bonded", 2)]
    /\ delegations = [k \in RewardKeys |-> NewDelegation(StartHeight, 1, EmptyHistory)]
    /\ snapshots = [k \in {} |-> 0]
    /\ rebalanceQueued = TRUE
    /\ params = [LastTakeRateClaimTime |-> ZeroTime, TakeRateClaimInterval |-> 1]
    /\ bank = NewBank([d \in Denoms |-> 1])
    /\ ctx = [BlockTime |-> StartTime, BlockHeight |-> StartHeight]
    /\ ledger = NewLedger(RewardKeys)

----------------------------------------------------------------------------
(* Actions *)

\* reward coins are added to a validator's pool
DepositRewards(valAddr, rewardDenom, amount) ==
    /\ ledger.deposits < MaxDeposits
    /\ valAddr \in DOMAIN validators
    /\ Commit([AddAssetsToRewardPool(Begin(Store, "AddAssetsToRewardPool"),
                                     valAddr, rewardDenom, amount)
                 EXCEPT !.ledger.deposits = @ + 1])

\* the distribution module allocates staking rewards to the module's delegation
AllocateStakingRewards(valAddr, rewardDenom, amount) ==
    /\ ledger.deposits < MaxDeposits
    /\ valAddr \in DOMAIN validators
    /\ validators[valAddr].ModuleShares > 0
    /\ Commit([Begin(Store, "AllocateStakingRewards")
                 EXCEPT !.validators[valAddr].Outstanding[rewardDenom] = @ + amount,
                        !.ledger.deposits = @ + 1])

\* a governance update of an alliance
UpdateAllianceAssetTx(newAsset) ==
    /\ ledger.updates < MaxUpdates
    /\ LET done(res) ==
               IF res.err = ""
               THEN Commit([res.st EXCEPT !.ledger.updates = @ + 1])
               ELSE Commit(Failed(Store, "UpdateAllianceAsset", res.err))
       IN  done(UpdateAllianceAsset(Begin(Store, "UpdateAllianceAsset"), newAsset))

\* a governance update during which the reward withdrawal of valAddr fails
UpdateAllianceAssetFlushFailingTx(newAsset, valAddr) ==
    /\ ledger.updates < MaxUpdates
    /\ LET done(res) ==
               IF res.err = ""
               THEN Commit([res.st EXCEPT !.bank.Failing = {},
                                          !.ledger.updates = @ + 1,
                                          !.ledger.key = <<valAddr>>])
               ELSE Commit([Failed(Store, "UpdateAllianceAsset", res.err)
                               EXCEPT !.ledger.key = <<valAddr>>])
       IN  done(UpdateAllianceAsset([Begin(Store, "UpdateAllianceAsset")
                                        EXCEPT !.bank.Failing = {valAddr}], newAsset))

\* a delegator claims the rewards of one delegation
ClaimDelegationRewardsTx(delAddr, valAddr, denom) ==
    LET done(res) ==
            IF res.err = ""
            THEN Commit([res.st EXCEPT !.ledger.key = <<delAddr, valAddr, denom>>,
                                       !.ledger.coins = res.coins])
            ELSE Commit(Failed(Store, "ClaimDelegationRewards", res.err))
    IN  done(ClaimDelegationRewards(Begin(Store, "ClaimDelegationRewards"),
                                    delAddr, valAddr, denom))

\* the block ends and the next one begins dt later
EndBlockerStep(dt) ==
    /\ ctx.BlockHeight < MaxHeight
    /\ ctx.BlockTime + dt <= MaxTime
    /\ LET done(res) ==
               /\ res.err = ""
               /\ Commit([res.st EXCEPT !.ctx = [BlockTime |-> @.BlockTime + dt,
                                                 BlockHeight |-> @.BlockHeight + 1]])
       IN  done(EndBlocker(Begin(Store, "EndBlocker")))

\* the update messages tried: weight and range as the caller states them,
\* the other fields as stored
UpdateWeights ==
    {[RewardWeight |-> NewDec(1), RewardWeightRange |-> [Min |-> 0, Max |-> NewDec(5)]],
     [RewardWeight |-> NewDec(6), RewardWeightRange |-> [Min |-> NewDec(5), Max |-> NewDec(8)]],
     [RewardWeight |-> NewDec(6), RewardWeightRange |-> [Min |-> 0, Max |-> NewDec(5)]]}

UpdateMessages ==
    {[WithDenom(assets[denom], denom) EXCEPT !.RewardWeight = u.RewardWeight,
                                             !.RewardWeightRange = u.RewardWeightRange] :
        denom \in DOMAIN assets, u \in UpdateWeights}

NextReward ==
    \/ \E v \in Vals, d \in RewardDenoms, a \in DepositAmounts : DepositRewards(v, d, a)
    \/ \E v \in Vals, a \in DepositAmounts : AllocateStakingRewards(v, "stake", a)
    \/ \E m \in UpdateMessages : UpdateAllianceAssetTx(m)
    \/ \E k \in DOMAIN delegations : ClaimDelegationRewardsTx(k[1], k[2], k[3])
    \/ \E dt \in {1, 2} : EndBlockerStep(dt)

SpecReward == InitReward /\ [][NextReward]_vars

----------------------------------------------------------------------------
(* Claims on rewards, checked under SpecReward *)

Abs(x) == IF x < 0 THEN -x ELSE x

\* the delegation has claimed everything deposited so far
Settled(k) ==
    /\ delegations[k].RewardHistory = validators[k[2]].GlobalRewardHistory
    /\ \A d \in RewardDenoms : validators[k[2]].Outstanding[d] = 0

\* the asset has been active since genesis
ActiveSinceGenesis(denom) == assets[denom].RewardStartTime <= StartTime

\* what was paid equals what the reference ledger credited, up to one coin
\* for each truncation to whole coins and the rounding of each product
WithinTruncation(k, d) ==
    /\ ledger.paid[k][d] * DecUnit * DecUnit <= ledger.owed[k][d] + ledger.truncs[k][d] * DecUnit
    /\ ledger.paid[k][d] * DecUnit * DecUnit
          >= ledger.owed[k][d] - ledger.truncs[k][d] * (DecUnit * DecUnit + DecUnit)

\* C1: once a delegation of an asset that was active throughout has claimed
\* everything deposited to its validator, the total it was paid equals, up
\* to truncation to whole coins, what the reference ledger credited to it
\* deposit by deposit (index delta x weight at the deposit x tokens),
\* whatever weight changes happened in between.
C1_ClaimMatchesReferenceLedger ==
    \A k \in DOMAIN delegations :
        (ActiveSinceGenesis(k[3]) /\ Settled(k)) =>
            \A d \in RewardDenoms : WithinTruncation(k, d)

\* C2: a snapshot, once written under (denom, validator, height), is never
\* changed or removed by a later step.
C2_SnapshotImmutable ==
    [][\A k \in DOMAIN snapshots : k \in DOMAIN snapshots' /\ snapshots'[k] = snapshots[k]]_vars

\* C3: every stored asset has its reward weight inside its stored range.
C3_WeightWithinStoredRange ==
    \A denom \in DOMAIN assets :
        /\ assets[denom].RewardWeightRange.Min <= assets[denom].RewardWeight
        /\ assets[denom].RewardWeight <= assets[denom].RewardWeightRange.Max


\* the validator's total weighted value over the given assets:
\* sum of rewardWeight x validator tokens of the asset
RECURSIVE WeightedValueOver(_, _)
WeightedValueOver(valAddr, denoms) ==
    IF denoms = <<>> THEN 0
    ELSE DecMul(assets[Head(denoms)].RewardWeight,
                TotalTokensWithAsset(validators[valAddr], Head(denoms), assets[Head(denoms)]))
         + WeightedValueOver(valAddr, Tail(denoms))

WeightedValueOfAll(valAddr) == WeightedValueOver(valAddr, SeqFilter(DenomSeq, DOMAIN assets))

WeightedValueOfStarted(valAddr) ==
    WeightedValueOver(valAddr,
        SeqFilter(DenomSeq, {denom \in DOMAIN assets :
                                ctx.BlockTime >= assets[denom].RewardStartTime}))

\* a deposit of amount of rewardDenom raises the validator's index of
\* rewardDenom by amount / W, to the precision of a decimal, and leaves the
\* index of every other reward denom as it was
RaisesIndexBy(valAddr, rewardDenom, amount, W) ==
    LET before == validators[valAddr].GlobalRewardHistory
        after == AddAssetsToRewardPool(Store, valAddr, rewardDenom, amount)
                    .validators[valAddr].GlobalRewardHistory
        delta == GetIndexByDenom(after, rewardDenom) - GetIndexByDenom(before, rewardDenom)
    IN  /\ 2 * Abs(delta * W - amount * DecUnit * DecUnit) <= W + (2 * W) \div DecUnit + 1
        /\ \A other \in RewardDenoms \ {rewardDenom} :
              /\ other \in DOMAIN after <=> other \in DOMAIN before
              /\ GetIndexByDenom(after, other) = GetIndexByDenom(before, other)

\* C4 as stated: W sums rewardWeight x validator tokens over all assets of
\* the validator; a deposit of A raises the index by A / W.
C4_DepositRaisesIndexOverAllAssets ==
    \A valAddr \in DOMAIN validators, rewardDenom \in RewardDenoms, amount \in DepositAmounts :
        WeightedValueOfAll(valAddr) > 0 =>
            RaisesIndexBy(valAddr, rewardDenom, amount, WeightedValueOfAll(valAddr))

\* C4 amended: W sums rewardWeight x validator tokens over the assets whose
\* reward start time has passed; a deposit of A over a positive W raises the
\* index of its denom by A / W and leaves the other denoms' indices unchanged:
\* 2 over W = 2 gives index 1, a further 2 over W = 12 gives 7/6.
C4_DepositRaisesIndexOverStartedAssets ==
    \A valAddr \in DOMAIN validators, rewardDenom \in RewardDenoms, amount \in DepositAmounts :
        LET W == WeightedValueOfStarted(valAddr)
            before == GetIndexByDenom(validators[valAddr].GlobalRewardHistory, rewardDenom)
            after == GetIndexByDenom(
                        AddAssetsToRewardPool(Store, valAddr, rewardDenom, amount)
                            .validators[valAddr].GlobalRewardHistory, rewardDenom)
        IN  W > 0 =>
              /\ RaisesIndexBy(valAddr, rewardDenom, amount, W)
              /\ (amount = 2 /\ W = NewDec(2) /\ before = 0) => after = NewDec(1)
              /\ (amount = 2 /\ W = NewDec(12) /\ before = NewDec(1)) =>
                     Abs(6 * after - 7 * DecUnit) <= 3

\* a second deposit of 2 over W = 12 has raised an index from 1 to 7/6
C4_Witness ==
    /\ ledger.last = "AddAssetsToRewardPool"
    /\ WeightedValueOfStarted("val1") = NewDec(12)
    /\ \E rewardDenom \in DOMAIN validators["val1"].GlobalRewardHistory :
          /\ validators["val1"].GlobalRewardHistory[rewardDenom] > NewDec(1)
          /\ Abs(6 * validators["val1"].GlobalRewardHistory[rewardDenom] - 7 * DecUnit) <= 3

\* C5: after a successful claim the delegation's local index equals the
\* validator's global index for every reward denom of the global vector.
C5_LocalIndexEqualsGlobalAfterClaim ==
    (ledger.last = "ClaimDelegationRewards" /\ ledger.err = "") =>
        LET global == validators[ledger.key[2]].GlobalRewardHistory
            local == delegations[ledger.key].RewardHistory
        IN  \A rewardDenom \in DOMAIN global :
               rewardDenom \in DOMAIN local /\ local[rewardDenom] = global[rewardDenom]

\* a claim that paid in one reward denom only, with two denoms in the global vector
C5_Witness ==
    /\ ledger.last = "ClaimDelegationRewards" /\ ledger.err = ""
    /\ DOMAIN validators[ledger.key[2]].GlobalRewardHistory = RewardDenoms
    /\ \E paidDenom \in RewardDenoms : ledger.coins[paidDenom] > 0
    /\ \E unpaidDenom \in RewardDenoms : ledger.coins[unpaidDenom] = 0

\* C6: a delegation of an asset whose reward start time lay ahead at genesis
\* is paid nothing for the deposits made before that time: what it has been
\* paid never exceeds what the deposits made from the start time on credit it.
C6_NothingEarnedBeforeStart ==
    \A k \in DOMAIN delegations :
        ~ActiveSinceGenesis(k[3]) =>
            \A d \in RewardDenoms :
                ledger.paid[k][d] * DecUnit * DecUnit
                    <= ledger.owed[k][d] + ledger.truncs[k][d] * DecUnit

----------------------------------------------------------------------------
(* Rebalancing: two validators holding shares of both assets, native stake
   that changes, validators that leave and re-enter the bonded set *)

MaxNative == 5
MaxChanges == 3

WeightHalf == NewDec(1) \div 2
WeightQuarter == NewDec(1) \div 4

RebalanceTokens ==
    [v \in Vals |-> [d \in Denoms |->
        IF d = "alliance" THEN (IF v = "val1" THEN 1 ELSE 3) ELSE 2]]

RebalanceKeys == {<<"user1", v, d>> : v \in Vals, d \in Denoms}

InitRebalance ==
    /\ \E start2 \in {ZeroTime, DelayedStart} :
          assets = [d \in Denoms |->
             IF d = "alliance"
             THEN [Delegated(NewAllianceAsset(WeightHalf, 0, NewDec(5), 0, ZeroTime), 4)
                     EXCEPT !.IsInitialized = TRUE]
             ELSE [Delegated(NewAllianceAsset(WeightQuarter, 0, NewDec(5), 0, start2), 4)
                     EXCEPT !.IsInitialized = (start2 = ZeroTime)]]
    /\ validators = [v \in Vals |->
                        NewAllianceValidator(RebalanceTokens[v], "bonded", MaxNative - 1)]
    /\ delegations = [k \in RebalanceKeys |->
                        NewDelegation(StartHeight, RebalanceTokens[k[2]][k[3]], EmptyHistory)]
    /\ snapshots = [k \in {} |-> 0]
    /\ rebalanceQueued = TRUE
    /\ params = [LastTakeRateClaimTime |-> ZeroTime, TakeRateClaimInterval |-> 1]
    /\ bank = NewBank([d \in Denoms |-> 4])
    /\ ctx = [BlockTime |-> StartTime, BlockHeight |-> StartHeight]
    /\ ledger = NewLedger(RebalanceKeys)

\* the native stake delegated to the validator by others than the module
NativeTokens(val) == val.Tokens - TruncateInt(val.ModuleShares)

\* a validator leaves or re-enters the bonded set
SetValidatorStatus(valAddr, status) ==
    /\ ledger.changes < MaxChanges
    /\ validators[valAddr].Status # status
    /\ Commit([Begin(Store, "SetValidatorStatus")
                 EXCEPT !.validators[valAddr].Status = status,
                        !.ledger.changes = @ + 1])

\* native delegators bond or unbond one token
NativeStake(valAddr, delta) ==
    /\ ledger.changes < MaxChanges
    /\ NativeTokens(validators[valAddr]) + delta \in (MaxNative - 1) .. MaxNative
    /\ Commit([Begin(Store, "NativeStake")
                 EXCEPT !.validators[valAddr].Tokens = @ + delta,
                        !.validators[valAddr].DelegatorShares = @ + NewDec(delta),
                        !.ledger.changes = @ + 1])

\* a delegation change queues a rebalance
QueueStep ==
    /\ ~rebalanceQueued
    /\ Commit(QueueAssetRebalanceEvent(Begin(Store, "QueueAssetRebalanceEvent")))

\* the rebalancer called on the stored assets
RebalanceStep ==
    LET done(res) ==
            IF res.err = "" THEN Commit(res.st)
            ELSE Commit(Failed(Store, "RebalanceBondTokenWeights", res.err))
    IN  done(RebalanceBondTokenWeights(Begin(Store, "RebalanceBondTokenWeights"), assets))

RebalanceMessages ==
    {[WithDenom(assets[denom], denom) EXCEPT !.RewardWeight = w] :
        denom \in DOMAIN assets, w \in {WeightQuarter, NewDec(1)}}

NextRebalance ==
    \/ \E v \in Vals, status \in {"bonded", "unbonded"} : SetValidatorStatus(v, status)
    \/ \E v \in Vals, delta \in {-1, 1} : NativeStake(v, delta)
    \/ \E m \in RebalanceMessages : UpdateAllianceAssetTx(m)
    \/ QueueStep
    \/ RebalanceStep
    \/ \E dt \in {1, 2} : EndBlockerStep(dt)

SpecRebalance == InitRebalance /\ [][NextRebalance]_vars

----------------------------------------------------------------------------
(* Claims on rebalancing, checked under SpecRebalance *)

\* the rebalancer run on the current state and its stored assets
Rebalanced == RebalanceBondTokenWeights(Begin(Store, "RebalanceBondTokenWeights"), assets)

\* and run once more on the result, nothing changed in between
RebalancedAgain ==
    RebalanceBondTokenWeights(Begin(Rebalanced.st, "RebalanceBondTokenWeights"),
                              Rebalanced.st.assets)

IsBalanceCall(call) == call[1] \in {"MintCoins", "BurnCoins", "Delegate", "Unbond"}

BalanceCalls(calls) == SelectSeq(calls, IsBalanceCall)

Bonded(s) == {v \in DOMAIN s.validators : s.validators[v].Status = "bonded"}

\* the shares of the asset held on bonded validators
RECURSIVE SharesOn(_, _, _)
SharesOn(s, denom, valAddrs) ==
    IF valAddrs = {} THEN 0
    ELSE LET v == CHOOSE x \in valAddrs : TRUE
         IN  s.validators[v].ValidatorShares[denom] + SharesOn(s, denom, valAddrs \ {v})

\* the assets that count: reward start time passed, shares on bonded validators
Counting(s) ==
    {denom \in DOMAIN s.assets :
        /\ s.ctx.BlockTime >= s.assets[denom].RewardStartTime
        /\ SharesOn(s, denom, Bonded(s)) > 0}

\* total bonded less what the module has bonded, when the call starts
RECURSIVE NativeOver(_, _)
NativeOver(s, valAddrs) ==
    IF valAddrs = {} THEN 0
    ELSE LET v == CHOOSE x \in valAddrs : TRUE
         IN  s.validators[v].Tokens - TruncateInt(s.validators[v].ModuleShares)
             + NativeOver(s, valAddrs \ {v})

NativeAtStart(s) == NativeOver(s, Bonded(s))

\* sum over the counting assets of
\* rewardWeight x nativeBondAmount x (validator's shares / bonded shares)
RECURSIVE ExpectedShareOver(_, _, _)
ExpectedShareOver(s, valAddr, denoms) ==
    IF denoms = {} THEN 0
    ELSE LET denom == CHOOSE x \in denoms : TRUE
             valShares == s.validators[valAddr].ValidatorShares[denom]
         IN  (IF valShares > 0
              THEN DecMul(DecMulInt(s.assets[denom].RewardWeight, NativeAtStart(s)),
                          DecQuo(valShares, SharesOn(s, denom, Bonded(s))))
              ELSE 0)
             + ExpectedShareOver(s, valAddr, denoms \ {denom})

\* what the module has delegated to the validator, in tokens
ModuleDelegated(s, valAddr) == NewDec(TruncateInt(s.validators[valAddr].ModuleShares))

\* every bonded validator carries its expected share, to less than one unit
EachWithinOneUnit(before, after) ==
    \A v \in Bonded(before) :
        Abs(ModuleDelegated(after, v) - ExpectedShareOver(before, v, Counting(before))) < NewDec(1)

RECURSIVE WeightSum(_, _)
WeightSum(s, denoms) ==
    IF denoms = {} THEN 0
    ELSE LET denom == CHOOSE x \in denoms : TRUE
         IN  s.assets[denom].RewardWeight + WeightSum(s, denoms \ {denom})

\* total bonded = native x (1 + sum of the counting weights), up to the
\* truncation of each bonded validator's share to whole tokens
TotalBondedMatches(before, after) ==
    Abs(NewDec(TotalBondedTokens(after))
        - DecMulInt(NewDec(1) + WeightSum(before, Counting(before)), NativeAtStart(before)))
      <= NewDec(Cardinality(Bonded(before)))

\* C7: a second call of the rebalancer right after a first, with nothing
\* changed in between, mints, burns, delegates and unbonds nothing.
C7_RebalanceIdempotent ==
    Rebalanced.err = "" =>
        /\ RebalancedAgain.err = ""
        /\ BalanceCalls(RebalancedAgain.st.ledger.calls) = <<>>

\* the rebalancer has just minted or burned, so that the call after it is a second call
C7_Witness ==
    /\ ledger.last = "RebalanceBondTokenWeights" /\ ledger.err = ""
    /\ BalanceCalls(ledger.calls) # <<>>

\* C8: after the rebalancer returns without error, what the module has
\* delegated to each bonded validator is within less than one unit of the
\* sum, over the started assets, of weight x native x (validator's shares /
\* bonded shares), native taken at the start of the call; and total bonded
\* is native x (1 + sum of those weights) up to truncation.
C8_BondedAmountMatchesExpected ==
    Rebalanced.err = "" =>
        /\ EachWithinOneUnit(Store, Rebalanced.st)
        /\ TotalBondedMatches(Store, Rebalanced.st)

\* a rebalance has delegated to both validators, an asset not yet started left out
C8_Witness ==
    /\ ledger.last = "RebalanceBondTokenWeights" /\ ledger.err = ""
    /\ \A v \in Vals : validators[v].Status = "bonded" /\ validators[v].ModuleShares > 0
    /\ \E denom \in DOMAIN assets : ctx.BlockTime < assets[denom].RewardStartTime
    /\ Len(BalanceCalls(ledger.calls)) >= 4

NamesValidator(call, valAddr) ==
    call[1] \in {"Delegate", "Unbond", "ClaimValidatorRewards"} /\ call[2] = valAddr

\* C9: validators that are not bonded are left out of the denominators, get
\* no mint, burn, delegate or unbond and keep their stored records; with a
\* validator outside the bonded set, total bonded after the rebalancer is
\* again native x (1 + sum of the active weights).
C9_UnbondedValidatorsExcluded ==
    (Rebalanced.err = "" /\ Bonded(Store) # DOMAIN validators) =>
        /\ \A v \in (DOMAIN validators) \ Bonded(Store) :
              /\ Rebalanced.st.validators[v] = validators[v]
              /\ \A i \in DOMAIN Rebalanced.st.ledger.calls :
                    ~NamesValidator(Rebalanced.st.ledger.calls[i], v)
        /\ EachWithinOneUnit(Store, Rebalanced.st)
        /\ TotalBondedMatches(Store, Rebalanced.st)

\* the rebalancer has run with one validator, holding shares and a module
\* delegation, outside the bonded set, and has delegated more to the other
C9_Witness ==
    /\ ledger.last = "RebalanceBondTokenWeights" /\ ledger.err = ""
    /\ \E v \in Vals :
          /\ validators[v].Status = "unbonded"
          /\ validators[v].ModuleShares > 0
          /\ validators[v].ValidatorShares["alliance"] > 0
    /\ \E i \in DOMAIN ledger.calls : ledger.calls[i][1] = "Delegate"

\* QueueAssetRebalanceEvent called n times
RECURSIVE QueueTimes(_, _)
QueueTimes(s, n) == IF n = 0 THEN s ELSE QueueTimes(QueueAssetRebalanceEvent(s), n - 1)

IsRebalanceRun(call) == call[1] = "RebalanceBondTokenWeights"

\* C10: after one or more queue calls the next consume returns true and
\* clears the marker, a further consume returns false and changes nothing;
\* an EndBlocker runs the rebalancer at most once.
C10_MarkerIsStickyBoolean ==
    /\ \A n \in 1 .. 3 :
          LET first == ConsumeAssetRebalanceEvent(QueueTimes(Store, n))
              second == ConsumeAssetRebalanceEvent(first.st)
          IN  /\ first.consumed
              /\ ~first.st.rebalanceQueued
              /\ ~second.consumed
              /\ second.st = first.st
    /\ ledger.last = "EndBlocker" => Len(SelectSeq(ledger.calls, IsRebalanceRun)) <= 1

\* an EndBlocker in which a weight update had queued a rebalance that was
\* already pending has run the rebalancer, once
C10_Witness ==
    /\ ledger.last = "EndBlocker"
    /\ ledger.updates >= 1
    /\ Len(SelectSeq(ledger.calls, IsRebalanceRun)) = 1
    /\ \E i \in DOMAIN ledger.calls : ledger.calls[i][1] = "MintCoins"


----------------------------------------------------------------------------
(* The time hooks of the end blocker, called on their own as the keeper
   tests call them: one validator, "alliance" decaying since genesis,
   "alliance2" growing, possibly with its reward start time still ahead
   or never reached *)

GenesisWeight == NewDec(4)
GenesisTokens == [d \in Denoms |-> IF d = "alliance" THEN 3 ELSE 6]
TakeRates == {0, NewDec(1) \div 2}
GrowthRates == {NewDec(1), NewDec(3) \div 2}

HookKeys == {<<"user1", "val1", "alliance">>, <<"user2", "val1", "alliance2">>}

\* the time from which the decay intervals of an asset count
GenesisChangeTime(asset) ==
    IF asset.RewardStartTime = ZeroTime THEN StartTime ELSE asset.RewardStartTime

InitHooks ==
    /\ \E min \in {0, NewDec(1)}, rate2 \in GrowthRates, takeRate \in TakeRates,
          start2 \in {ZeroTime, DelayedStart, MaxTime, MaxTime + 1} :
          assets = [d \in Denoms |->
             IF d = "alliance"
             THEN [Delegated(NewAllianceAsset(GenesisWeight, min, NewDec(5), takeRate,
                                              ZeroTime), GenesisTokens[d])
                     EXCEPT !.IsInitialized = TRUE,
                            !.RewardChangeRate = NewDec(1) \div 2,
                            !.RewardChangeInterval = 1,
                            !.LastRewardChangeTime = StartTime]
             ELSE [Delegated(NewAllianceAsset(GenesisWeight, min, NewDec(5),
                                              NewDec(1) \div 2, start2), GenesisTokens[d])
                     EXCEPT !.IsInitialized = (start2 = ZeroTime),
                            !.RewardChangeRate = rate2,
                            !.RewardChangeInterval = IF rate2 = NewDec(1) THEN 0 ELSE 2,
                            !.LastRewardChangeTime =
                                IF start2 = ZeroTime THEN StartTime ELSE start2]]
    /\ validators = [v \in {"val1"} |->
                        NewAllianceValidator(GenesisTokens, "bonded", 2)]
    /\ delegations = [k \in HookKeys |->
                        NewDelegation(StartHeight, GenesisTokens[k[3]], EmptyHistory)]
    /\ snapshots = [k \in {} |-> 0]
    /\ rebalanceQueued = FALSE
    /\ \E claimInterval \in {1, 2} :
          params = [LastTakeRateClaimTime |-> StartTime,
                    TakeRateClaimInterval |-> claimInterval]
    /\ bank = NewBank(GenesisTokens)
    /\ ctx = [BlockTime |-> StartTime, BlockHeight |-> StartHeight]
    /\ ledger = NewLedger(HookKeys)

\* the next block begins dt later
NextBlock(dt) ==
    /\ ctx.BlockTime + dt <= MaxTime
    /\ Commit([Begin(Store, "NextBlock")
                 EXCEPT !.ctx = [BlockTime |-> @.BlockTime + dt,
                                 BlockHeight |-> @.BlockHeight + 1]])

\* DeductAssetsHook called on the stored assets
DeductAssetsHookStep ==
    LET done(res) == Commit(res.st)
    IN  done(DeductAssetsHook(Begin(Store, "DeductAssetsHook"), assets))

\* RewardWeightChangeHook called on the stored assets
RewardWeightChangeHookStep ==
    LET done(res) == res.err = "" /\ Commit(res.st)
    IN  done(RewardWeightChangeHook(Begin(Store, "RewardWeightChangeHook"), assets))

\* RebalanceHook called on the stored assets
RebalanceHookStep ==
    LET done(res) == res.err = "" /\ Commit(res.st)
    IN  done(RebalanceHook(Begin(Store, "RebalanceHook"), assets))

NextHooks ==
    \/ \E dt \in {1, 2, 3} : NextBlock(dt)
    \/ DeductAssetsHookStep
    \/ RewardWeightChangeHookStep
    \/ RebalanceHookStep

SpecHooks == InitHooks /\ [][NextHooks]_vars


----------------------------------------------------------------------------
(* Properties of the reward-weight decay *)

Clamp(x, lo, hi) == IF x < lo THEN lo ELSE IF x > hi THEN hi ELSE x

\* the decay of the asset is switched on and a full interval has elapsed
DecayDue(asset, blockTime) ==
    /\ asset.RewardChangeInterval # 0
    /\ asset.RewardChangeRate # NewDec(1)
    /\ asset.LastRewardChangeTime + asset.RewardChangeInterval <= blockTime

\* the whole decay intervals between two times
IntervalsBetween(asset, from, to) == (to - from) \div asset.RewardChangeInterval

\* the weight one run stores for n intervals: the power and the product are
\* each rounded, the result is clamped to the asset's range
DecayedWeight(asset, weight, n) ==
    Clamp(DecMul(weight, DecPower(asset.RewardChangeRate, n)),
          asset.RewardWeightRange.Min, asset.RewardWeightRange.Max)

\* the decay intervals applied to the asset since genesis
IntervalsApplied(asset) ==
    IntervalsBetween(asset, GenesisChangeTime(asset), asset.LastRewardChangeTime)

\* C11 as stated: after n full intervals the stored reward weight equals
\* clamp(initialWeight x rate^n, min, max), whether the hook ran once after
\* the n intervals or at blocks along the way.
C11_DecayEqualsClosedForm ==
    \A denom \in DOMAIN assets :
        assets[denom].RewardChangeInterval # 0 /\ assets[denom].RewardChangeRate # NewDec(1)
        => assets[denom].RewardWeight =
              DecayedWeight(assets[denom], GenesisWeight, IntervalsApplied(assets[denom]))

\* C11 amended: each run of the hook that finds k >= 1 full intervals elapsed
\* stores clamp(weight x rate^k, min, max), power and product rounded, and
\* moves LastRewardChangeTime on by k intervals, so that after the run the
\* intervals applied since genesis are all the n full intervals elapsed; a
\* single run after n intervals stores clamp(initialWeight x rate^n, min, max).
C11_DecayAppliedPerRun ==
    [][ledger'.last = "RewardWeightChangeHook"
       => \A denom \in DOMAIN assets :
             DecayDue(assets[denom], ctx.BlockTime)
             => /\ assets'[denom].RewardWeight =
                      DecayedWeight(assets[denom], assets[denom].RewardWeight,
                                    IntervalsBetween(assets[denom],
                                                     assets[denom].LastRewardChangeTime,
                                                     ctx.BlockTime))
                /\ IntervalsApplied(assets'[denom]) =
                      IntervalsBetween(assets[denom], GenesisChangeTime(assets[denom]),
                                       ctx.BlockTime)
                /\ (IntervalsApplied(assets[denom]) = 0
                    => assets'[denom].RewardWeight =
                          DecayedWeight(assets[denom], GenesisWeight,
                                        IntervalsApplied(assets'[denom])))]_vars

\* the hook has run at blocks along the way and the weight stored after three
\* intervals is not the one a single run would have stored
C11_Witness ==
    /\ ledger.last = "RewardWeightChangeHook"
    /\ IntervalsApplied(assets["alliance"]) = 3
    /\ assets["alliance"].RewardWeight #
          DecayedWeight(assets["alliance"], GenesisWeight, 3)


\* the snapshot log of one asset
SnapshotsOf(s, denom) ==
    [k \in {x \in DOMAIN s.snapshots : x[1] = denom} |-> s.snapshots[k]]

\* the store after RewardWeightChangeHook has run on the stored assets
WeightChanged == RewardWeightChangeHook(Store, assets).st

\* C12: the hook is a no-op for an asset whose next interval has not
\* elapsed, whose interval is 0 or whose rate is 1: its stored record and its
\* snapshot log stay as they are, and when no asset is due the whole store,
\* the pending-rebalance marker included, is left unchanged.
C12_HookNoOpUnlessDue ==
    /\ \A denom \in DOMAIN assets :
          ~DecayDue(assets[denom], ctx.BlockTime)
          => /\ WeightChanged.assets[denom] = assets[denom]
             /\ SnapshotsOf(WeightChanged, denom) = SnapshotsOf(Store, denom)
    /\ (\A denom \in DOMAIN assets : ~DecayDue(assets[denom], ctx.BlockTime))
       => WeightChanged = Store

\* each way of not being due occurs with the marker clear: the interval of
\* "alliance" has not elapsed since its last change, "alliance2" has rate 1
\* and interval 0
C12_Witness ==
    /\ ~rebalanceQueued
    /\ ctx.BlockTime > StartTime
    /\ assets["alliance"].LastRewardChangeTime = ctx.BlockTime
    /\ assets["alliance"].RewardWeight # GenesisWeight
    /\ assets["alliance2"].RewardChangeInterval = 0
    /\ assets["alliance2"].RewardChangeRate = NewDec(1)


\* C13: when the hook fires for an asset, LastRewardChangeTime becomes the
\* old value plus k intervals, k = floor((now - old) / interval) >= 1, not
\* the block time: afterwards LastRewardChangeTime <= now < LastRewardChangeTime
\* + interval, a whole number of intervals after the value it had.
C13_ChangeTimeAdvancesByWholeIntervals ==
    \A denom \in DOMAIN assets :
        DecayDue(assets[denom], ctx.BlockTime)
        => LET old == assets[denom].LastRewardChangeTime
               interval == assets[denom].RewardChangeInterval
               k == (ctx.BlockTime - old) \div interval
               new == WeightChanged.assets[denom].LastRewardChangeTime
           IN  /\ k >= 1
               /\ new = old + k * interval
               /\ new <= ctx.BlockTime
               /\ ctx.BlockTime < new + interval

\* the hook is about to fire for "alliance2" one and a half intervals after
\* its last change
C13_Witness ==
    /\ DecayDue(assets["alliance2"], ctx.BlockTime)
    /\ ctx.BlockTime - assets["alliance2"].LastRewardChangeTime = 3
    /\ assets["alliance2"].RewardChangeInterval = 2
    /\ WeightChanged.assets["alliance2"].LastRewardChangeTime < ctx.BlockTime


----------------------------------------------------------------------------
(* Properties of the take-rate engine *)

\* what DeductAssetsHook returns when called on the stored assets
Deducted == DeductAssetsHook(Store, assets)

\* the hook fires: the last claim time is set and the block time has passed
\* the claim interval after it
TakeRateDue ==
    /\ params.LastTakeRateClaimTime # ZeroTime
    /\ ctx.BlockTime > params.LastTakeRateClaimTime + params.TakeRateClaimInterval

\* the claim intervals elapsed since the last claim time
ClaimIntervals ==
    (ctx.BlockTime - params.LastTakeRateClaimTime) \div params.TakeRateClaimInterval

\* the asset is one the engine looks at: tokens, a take rate, rewards started
Taxable(asset) ==
    asset.TotalTokens > 0 /\ asset.TakeRate > 0 /\ asset.RewardStartTime <= ctx.BlockTime

\* the tokens left of an asset after k claim intervals, before truncation
Remaining(asset, k) == DecMulInt(DecPower(NewDec(1) - asset.TakeRate, k), asset.TotalTokens)

\* the run of the hook reduces the asset
Taxed(denom) == TakeRateDue /\ Deducted.st.assets[denom].TotalTokens # assets[denom].TotalTokens

\* the coin transfers among the calls of a handler
Transfers(calls) ==
    SelectSeq(calls, LAMBDA call : call[1] = "SendCoinsFromModuleToModule")

\* C14: an asset taxed over k elapsed claim intervals is left with
\* floor(oldTotal x (1 - takeRate)^k) tokens; the coins DeductAssetsHook
\* returns are oldTotal - newTotal of every taxed asset and nothing else, and
\* exactly those coins move from the module account to the fee collector.
C14_TaxedAmountIsTransferred ==
    TakeRateDue
    => /\ \A denom \in DOMAIN assets :
             /\ Taxed(denom)
                => Deducted.st.assets[denom].TotalTokens =
                      TruncateInt(Remaining(assets[denom], ClaimIntervals))
             /\ Deducted.coins[denom] =
                   assets[denom].TotalTokens - Deducted.st.assets[denom].TotalTokens
             /\ Deducted.st.bank.Module[denom] = bank.Module[denom] - Deducted.coins[denom]
             /\ Deducted.st.bank.FeeCollector[denom] =
                   bank.FeeCollector[denom] + Deducted.coins[denom]
       /\ Transfers(Deducted.st.ledger.calls) =
             IF \E denom \in DOMAIN assets : Taxed(denom)
             THEN Transfers(ledger.calls)
                     \o <<<<"SendCoinsFromModuleToModule", Deducted.coins>>>>
             ELSE Transfers(ledger.calls)

\* the hook is about to tax "alliance2" at take rate 0.5 over one interval:
\* half of its tokens remain and half go to the fee collector
C14_Witness ==
    /\ TakeRateDue
    /\ ClaimIntervals = 1
    /\ assets["alliance2"].TakeRate = NewDec(1) \div 2
    /\ assets["alliance2"].TotalTokens = GenesisTokens["alliance2"]
    /\ Deducted.st.assets["alliance2"].TotalTokens * 2 = GenesisTokens["alliance2"]
    /\ Deducted.coins["alliance2"] * 2 = GenesisTokens["alliance2"]
    /\ Deducted.st.bank.FeeCollector["alliance2"] * 2 = GenesisTokens["alliance2"]


\* C15: floor protection.  The engine skips the reduction of an asset
\* whenever newTotal = floor(totalTokens x multiplier) is 1 or less, so no
\* run of the hook lowers an asset's totalTokens to 1 or below.
C15_FloorProtection ==
    TakeRateDue
    => \A denom \in DOMAIN assets :
          /\ (Taxable(assets[denom])
              /\ TruncateInt(Remaining(assets[denom], ClaimIntervals)) <= 1)
             => Deducted.st.assets[denom].TotalTokens = assets[denom].TotalTokens
          /\ Taxed(denom) => Deducted.st.assets[denom].TotalTokens > 1


\* C16: an asset that starts with at least one token and a take rate between
\* 0 and 1 still has at least one token after any number of runs of
\* DeductAssetsHook at any block times.
C16_TokensNeverBelowOne ==
    \A denom \in DOMAIN assets : assets[denom].TotalTokens >= 1

\* a run of the hook has taxed "alliance2" down to its last token and has
\* left "alliance", which it would have taken below one token, as it was
C16_Witness ==
    /\ ledger.last = "DeductAssetsHook"
    /\ params.LastTakeRateClaimTime > StartTime
    /\ assets["alliance2"].TotalTokens = 1
    /\ Taxable(assets["alliance"])
    /\ assets["alliance"].TotalTokens = GenesisTokens["alliance"]


\* the whole claim intervals elapsed since the asset's rewards started
ClaimIntervalsSinceStart(asset) ==
    (ctx.BlockTime - asset.RewardStartTime) \div params.TakeRateClaimInterval

\* C17: an asset is not taxed for claim intervals that elapsed before its
\* RewardStartTime: the multiplier a run of the hook applies to it is
\* (1 - takeRate)^j with j at most the whole claim intervals elapsed after the
\* asset's start, whatever the other assets and the last claim time are.
C17_NoTaxBeforeActivation ==
    \A denom \in DOMAIN assets :
        Taxed(denom) /\ assets[denom].RewardStartTime # ZeroTime
        => \E j \in 0 .. ClaimIntervalsSinceStart(assets[denom]) :
              Deducted.st.assets[denom].TotalTokens =
                 TruncateInt(Remaining(assets[denom], j))


\* C18: when the hook fires with the last claim time set, a run that taxes
\* at least one asset moves the last claim time on by k claim intervals,
\* k = floor((now - old) / claimInterval), and a run that finds no asset with
\* tokens, a take rate and started rewards sets it to the block time.
C18_ClaimTimeAfterRun ==
    TakeRateDue
    => /\ (\E denom \in DOMAIN assets : Taxed(denom))
          => Deducted.st.params.LastTakeRateClaimTime =
                params.LastTakeRateClaimTime + ClaimIntervals * params.TakeRateClaimInterval
       /\ (\A denom \in DOMAIN assets : ~Taxable(assets[denom]))
          => Deducted.st.params.LastTakeRateClaimTime = ctx.BlockTime

\* the hook is about to tax an asset one and a half claim intervals after the
\* last claim time, which moves on by one interval and stays behind the block
C18_Witness ==
    /\ TakeRateDue
    /\ \E denom \in DOMAIN assets : Taxed(denom)
    /\ ClaimIntervals = 1
    /\ Deducted.st.params.LastTakeRateClaimTime < ctx.BlockTime
    /\ Deducted.st.params.LastTakeRateClaimTime > params.LastTakeRateClaimTime


\* C19: DeductAssetsHook is a no-op while the block time has not passed the
\* last claim time plus the claim interval: it returns no coins, and the
\* tokens of every asset, the last claim time and all balances, with the rest
\* of the store, are unchanged.
C19_NoOpBeforeInterval ==
    (params.LastTakeRateClaimTime # ZeroTime
     /\ ctx.BlockTime <= params.LastTakeRateClaimTime + params.TakeRateClaimInterval)
    => /\ \A denom \in Denoms : Deducted.coins[denom] = 0
       /\ \A denom \in DOMAIN assets :
             Deducted.st.assets[denom].TotalTokens = assets[denom].TotalTokens
       /\ Deducted.st.params = params
       /\ Deducted.st.bank = bank
       /\ Deducted.st = Store

\* exactly one claim interval after the last claim time, with an asset the
\* engine would reduce if it ran
C19_Witness ==
    /\ ctx.BlockTime = params.LastTakeRateClaimTime + params.TakeRateClaimInterval
    /\ \E denom \in DOMAIN assets :
          Taxable(assets[denom]) /\ Remaining(assets[denom], 1) > NewDec(1)
    /\ Deducted.st = Store


----------------------------------------------------------------------------
(* Deposits to validators without weighted value: "val2" has no alliance
   delegations; "val1" has none that count while "alliance" has weight zero
   and the rewards of "alliance2" have not started, which they may never *)

DepositTokens == [v \in Vals |-> [d \in Denoms |-> IF v = "val1" THEN 1 ELSE 0]]

InitDeposit ==
    /\ \E weight \in {0, NewDec(2)}, start2 \in {DelayedStart, MaxTime + 1} :
          assets = [d \in Denoms |->
             IF d = "alliance"
             THEN [Delegated(NewAllianceAsset(weight, 0, NewDec(5), 0, ZeroTime), 1)
                     EXCEPT !.IsInitialized = TRUE]
             ELSE Delegated(NewAllianceAsset(NewDec(1), 0, NewDec(5), 0, start2), 1)]
    /\ validators = [v \in Vals |-> NewAllianceValidator(DepositTokens[v], "bonded", 2)]
    /\ delegations = [k \in RewardKeys |-> NewDelegation(StartHeight, 1, EmptyHistory)]
    /\ snapshots = [k \in {} |-> 0]
    /\ rebalanceQueued = TRUE
    /\ params = [LastTakeRateClaimTime |-> ZeroTime, TakeRateClaimInterval |-> 1]
    /\ bank = NewBank([d \in Denoms |-> 1])
    /\ ctx = [BlockTime |-> StartTime, BlockHeight |-> StartHeight]
    /\ ledger = NewLedger(RewardKeys)

\* governance takes the weight of "alliance" to zero or back to two
DepositMessages ==
    {[WithDenom(assets["alliance"], "alliance") EXCEPT !.RewardWeight = w] :
        w \in {0, NewDec(2)}}

NextDeposit ==
    \/ \E v \in Vals, d \in RewardDenoms, a \in DepositAmounts : DepositRewards(v, d, a)
    \/ \E v \in Vals, a \in DepositAmounts : AllocateStakingRewards(v, "stake", a)
    \/ \E m \in DepositMessages : UpdateAllianceAssetTx(m)
    \/ \E m \in DepositMessages, v \in Vals : UpdateAllianceAssetFlushFailingTx(m, v)
    \/ \E k \in DOMAIN delegations : ClaimDelegationRewardsTx(k[1], k[2], k[3])
    \/ \E dt \in {1, 2} : EndBlockerStep(dt)

SpecDeposit == InitDeposit /\ [][NextDeposit]_vars


----------------------------------------------------------------------------
(* Properties of deposits without weighted value *)

RECURSIVE SumOf(_, _)
SumOf(f, S) ==
    IF S = {} THEN 0
    ELSE LET x == CHOOSE y \in S : TRUE IN f[x] + SumOf(f, S \ {x})

\* the coins of a reward denom that are accounted for: outstanding with the
\* distribution module, withdrawn into the module account, in the rewards
\* pool, or paid out to delegators
Accounted(vals, bnk, ldg, d) ==
    SumOf([v \in DOMAIN vals |-> vals[v].Outstanding[d]], DOMAIN vals)
    + bnk.Withdrawn[d] + bnk.RewardsPool[d]
    + SumOf([k \in DOMAIN ldg.paid |-> ldg.paid[k][d]], DOMAIN ldg.paid)

\* some validator's global index of the reward denom has risen
IndexRaised(before, after, d) ==
    \E v \in DOMAIN before :
        GetIndexByDenom(after[v].GlobalRewardHistory, d)
           > GetIndexByDenom(before[v].GlobalRewardHistory, d)

\* C20: a deposit to a validator whose total weighted value is zero changes
\* no global index and moves no coin, so the coins stay with the sender; no
\* step moves coins into the rewards pool without raising an index, and no
\* step but an allocation or a deposit changes the coins accounted for: what
\* is withdrawn for a validator without weighted value stays in the module
\* account.
C20_ZeroWeightDepositKeepsCoins ==
    /\ [](\A valAddr \in DOMAIN validators, d \in RewardDenoms, amount \in DepositAmounts :
             WeightedValueOfStarted(valAddr) = 0
             => /\ AddAssetsToRewardPool(Store, valAddr, d, amount).validators = validators
                /\ AddAssetsToRewardPool(Store, valAddr, d, amount).bank = bank)
    /\ [][\A d \in RewardDenoms :
             /\ bank'.RewardsPool[d] > bank.RewardsPool[d]
                => IndexRaised(validators, validators', d)
             /\ ledger'.last = "AddAssetsToRewardPool"
                => (IndexRaised(validators, validators', d)
                    <=> bank'.RewardsPool[d] > bank.RewardsPool[d])
             /\ ledger'.last \notin {"AllocateStakingRewards", "AddAssetsToRewardPool"}
                => Accounted(validators', bank', ledger', d)
                      = Accounted(validators, bank, ledger, d)]_vars

\* staking rewards were withdrawn for "val1" while it had no weighted value:
\* they are in the module account, the pool is empty and no index has moved
C20_Witness ==
    /\ WeightedValueOfStarted("val1") = 0
    /\ bank.Withdrawn["stake"] > 0
    /\ bank.RewardsPool["stake"] = 0
    /\ GetIndexByDenom(validators["val1"].GlobalRewardHistory, "stake") = 0


----------------------------------------------------------------------------
(* Invariants of the indices and of the asset totals *)

----------------------------------------------------------------------------
(* Share/token conversion: pools of one validator as delegation leaves them
   (one share per token) and as the take rate shrinks them, and the
   conversion functions applied to drawn amounts *)

MaxPoolTokens == 3

\* totals and share amounts handed to the conversions: the smallest
\* decimal, a half, and whole amounts
PoolTokens == {NewDec(t) : t \in 1..MaxPoolTokens}
PoolShares == {1, DecUnit \div 2} \cup PoolTokens

InitConvert ==
    /\ \E tokens1 \in 1..MaxPoolTokens, tokens2 \in 1..MaxPoolTokens :
          LET tokens == [d \in Denoms |-> IF d = "alliance" THEN tokens1 ELSE tokens2]
          IN  /\ assets = [d \in Denoms |->
                     [Delegated(NewAllianceAsset(NewDec(1), 0, NewDec(5),
                                                 NewDec(1) \div 2, ZeroTime), tokens[d])
                        EXCEPT !.IsInitialized = TRUE,
                               !.LastRewardChangeTime = StartTime]]
              /\ validators = [v \in {"val1"} |->
                                  NewAllianceValidator(tokens, "bonded", 2)]
              /\ delegations = [k \in HookKeys |->
                                  NewDelegation(StartHeight, tokens[k[3]], EmptyHistory)]
              /\ bank = NewBank(tokens)
    /\ snapshots = [k \in {} |-> 0]
    /\ rebalanceQueued = FALSE
    /\ \E claimInterval \in {1, 2} :
          params = [LastTakeRateClaimTime |-> StartTime,
                    TakeRateClaimInterval |-> claimInterval]
    /\ ctx = [BlockTime |-> StartTime, BlockHeight |-> StartHeight]
    /\ ledger = NewLedger(HookKeys)

\* the result of a conversion, kept with its arguments
Converted(s, name, args, result) ==
    [Begin(s, name) EXCEPT !.ledger.key = args, !.ledger.calls = <<result>>]

\* ConvertNewTokenToShares applied to a pool's totals and a token amount
ConvertNewTokenToSharesStep(totalTokens, totalShares, newTokens) ==
    Commit(Converted(Store, "ConvertNewTokenToShares",
                     <<totalTokens, totalShares, newTokens>>,
                     ConvertNewTokenToShares(totalTokens, totalShares, newTokens)))

\* GetDelegationTokensWithShares applied to a share amount of the stored
\* validator and asset
GetDelegationTokensWithSharesStep(delegatorShares, valAddr, denom) ==
    /\ TotalDelegationSharesWithDenom(validators[valAddr], denom) > 0
    /\ delegatorShares <= TotalDelegationSharesWithDenom(validators[valAddr], denom)
    /\ Commit(Converted(Store, "GetDelegationTokensWithShares",
                        <<delegatorShares, valAddr, denom>>,
                        GetDelegationTokensWithShares(delegatorShares, validators[valAddr],
                                                      denom, assets[denom])))

NextConvert ==
    \/ \E dt \in {1, 2} : NextBlock(dt)
    \/ DeductAssetsHookStep
    \/ \E totalTokens \in PoolTokens, totalShares \in PoolShares,
          newTokens \in 0..MaxPoolTokens :
          ConvertNewTokenToSharesStep(totalTokens, totalShares, newTokens)
    \/ \E delegatorShares \in {0} \cup PoolShares, denom \in Denoms :
          GetDelegationTokensWithSharesStep(delegatorShares, "val1", denom)

SpecConvert == InitConvert /\ [][NextConvert]_vars

----------------------------------------------------------------------------
(* C23 *)

\* the decimal token value of a share amount in the validator's pool
TokenValue(delegatorShares, valAddr, denom) ==
    ConvertNewShareToDecToken(TotalTokensWithAsset(validators[valAddr], denom, assets[denom]),
                              TotalDelegationSharesWithDenom(validators[valAddr], denom),
                              delegatorShares)

----------------------------------------------------------------------------
(* Governance and claim messages against a store in which an asset may be
   missing or empty: "alliance" holds tokens or none, "alliance2" is
   missing, empty or delegated; the delegations are user1's on val1 *)

LifecycleKeys == {<<"user1", "val1", d>> : d \in Denoms}

InitLifecycle ==
    /\ \E tokens1 \in {0, 2}, tokens2 \in {0, 1}, stored \in {{"alliance"}, Denoms} :
          LET tokens == [d \in Denoms |->
                            IF d \notin stored THEN 0
                            ELSE IF d = "alliance" THEN tokens1 ELSE tokens2]
              none == [d \in Denoms |-> 0]
          IN  /\ assets = [d \in stored |->
                     [Delegated(NewAllianceAsset(IF d = "alliance" THEN NewDec(2)
                                                 ELSE NewDec(1),
                                                 0, NewDec(5), 0, ZeroTime), tokens[d])
                        EXCEPT !.IsInitialized = TRUE,
                               !.LastRewardChangeTime = StartTime]]
              /\ validators = [v \in Vals |->
                     NewAllianceValidator(IF v = "val1" THEN tokens ELSE none, "bonded", 2)]
              /\ delegations = [k \in {x \in LifecycleKeys : tokens[x[3]] > 0} |->
                                   NewDelegation(StartHeight, tokens[k[3]], EmptyHistory)]
              /\ bank = NewBank(tokens)
    /\ snapshots = [k \in {} |-> 0]
    /\ rebalanceQueued = FALSE
    /\ params = [LastTakeRateClaimTime |-> StartTime, TakeRateClaimInterval |-> 1,
                 RewardDelayTime |-> 1]
    /\ ctx = [BlockTime |-> StartTime, BlockHeight |-> StartHeight]
    /\ ledger = NewLedger(DOMAIN delegations)

\* a proposal to create an alliance is carried out
CreateAllianceTx(req) ==
    /\ ledger.changes < MaxChanges
    /\ LET done(res) ==
               IF res.err = ""
               THEN Commit([res.st EXCEPT !.ledger.key = <<req.Denom>>,
                                          !.ledger.changes = @ + 1])
               ELSE Commit([Failed(Store, "CreateAlliance", res.err)
                              EXCEPT !.ledger.key = <<req.Denom>>])
       IN  done(CreateAlliance(Begin(Store, "CreateAlliance"), req))

\* a proposal to delete an alliance is carried out on the stored asset
DeleteAssetTx(denom) ==
    /\ ledger.changes < MaxChanges
    /\ GetAssetByDenom(Store, denom).found
    /\ LET done(res) ==
               IF res.err = ""
               THEN Commit([res.st EXCEPT !.ledger.key = <<denom>>,
                                          !.ledger.changes = @ + 1])
               ELSE Commit([Failed(Store, "DeleteAsset", res.err)
                              EXCEPT !.ledger.key = <<denom>>])
       IN  done(DeleteAsset(Begin(Store, "DeleteAsset"), GetAssetByDenom(Store, denom).asset))

\* the proposals to create an alliance
CreateMessages ==
    {[Denom |-> d, RewardWeight |-> NewDec(3),
      RewardWeightRange |-> [Min |-> 0, Max |-> NewDec(5)], TakeRate |-> 0,
      RewardChangeRate |-> NewDec(1), RewardChangeInterval |-> 0] : d \in Denoms}

\* the update messages tried, also for a denom that is not stored
LifecycleMessages ==
    {[WithDenom(IF denom \in DOMAIN assets THEN assets[denom]
                ELSE NewAllianceAsset(NewDec(1), 0, NewDec(5), 0, ZeroTime), denom)
        EXCEPT !.RewardWeight = u.RewardWeight,
               !.RewardWeightRange = u.RewardWeightRange] :
        denom \in Denoms, u \in UpdateWeights}

NextLifecycle ==
    \/ \E a \in DepositAmounts : DepositRewards("val1", "stake", a)
    \/ \E req \in CreateMessages : CreateAllianceTx(req)
    \/ \E m \in LifecycleMessages : UpdateAllianceAssetTx(m)
    \/ \E denom \in Denoms : DeleteAssetTx(denom)
    \/ \E delAddr \in {"user1", "user2"}, valAddr \in Vals, denom \in Denoms :
          ClaimDelegationRewardsTx(delAddr, valAddr, denom)
    \/ EndBlockerStep(1)

SpecLifecycle == InitLifecycle /\ [][NextLifecycle]_vars

----------------------------------------------------------------------------
(* C24 *)

\* DeleteAsset called on a stored asset, in the current state
Deleted(denom) == DeleteAsset(Store, GetAssetByDenom(Store, denom).asset)

\* C24: DeleteAsset returns an error and leaves the asset record in the
\* store while the asset's TotalTokens is greater than zero; when
\* TotalTokens is zero it succeeds and the record is no longer found by
\* GetAssetByDenom or GetAllAssets.
C24_DeleteOnlyWhenEmpty ==
    \A denom \in DOMAIN assets :
        IF assets[denom].TotalTokens > 0
        THEN /\ Deleted(denom).err # ""
             /\ GetAssetByDenom(Deleted(denom).st, denom) = GetAssetByDenom(Store, denom)
             /\ GetAllAssets(Deleted(denom).st) = GetAllAssets(Store)
        ELSE /\ Deleted(denom).err = ""
             /\ ~GetAssetByDenom(Deleted(denom).st, denom).found
             /\ denom \notin DOMAIN GetAllAssets(Deleted(denom).st)
             /\ \A other \in DOMAIN assets \ {denom} :
                   GetAssetByDenom(Deleted(denom).st, other) = GetAssetByDenom(Store, other)

\* an empty asset has been deleted while an asset with tokens is stored,
\* which DeleteAsset refuses to delete
C24_Witness ==
    /\ ledger.last = "DeleteAsset"
    /\ ledger.err = ""
    /\ ~GetAssetByDenom(Store, ledger.key[1]).found
    /\ \E denom \in DOMAIN assets :
          assets[denom].TotalTokens > 0 /\ Deleted(denom).err # ""

----------------------------------------------------------------------------
(* C25 *)

\* the asset store, the snapshot log and the rebalance marker of s are
\* those of the current state
RegistryUnchanged(s) ==
    /\ s.assets = assets
    /\ s.snapshots = snapshots
    /\ s.rebalanceQueued = rebalanceQueued

\* the weight of the message lies outside the stored asset's own range
OutsideStoredRange(m) ==
    \/ m.RewardWeight < assets[m.Denom].RewardWeightRange.Min
    \/ m.RewardWeight > assets[m.Denom].RewardWeightRange.Max

\* C25: UpdateAllianceAsset returns ErrUnknownAsset when the denom has no
\* stored asset and ErrRewardWeightOutOfBound when the new weight is outside
\* the asset's own bounds; in both cases the asset store, the snapshot log
\* and the pending-rebalance marker are unchanged.
C25_UpdateRejectsUnknownAndOutOfBound ==
    \A m \in LifecycleMessages :
        /\ m.Denom \notin DOMAIN assets
              => /\ UpdateAllianceAsset(Store, m).err = "ErrUnknownAsset"
                 /\ RegistryUnchanged(UpdateAllianceAsset(Store, m).st)
        /\ m.Denom \in DOMAIN assets /\ OutsideStoredRange(m)
              => /\ UpdateAllianceAsset(Store, m).err = "ErrRewardWeightOutOfBound"
                 /\ RegistryUnchanged(UpdateAllianceAsset(Store, m).st)

----------------------------------------------------------------------------
(* C26 *)

\* C26: creating an asset whose denom already exists fails with an error
\* and leaves the existing asset record, including its weight, totals and
\* timestamps, unchanged.
C26_DuplicateCreateFails ==
    \A req \in CreateMessages :
        req.Denom \in DOMAIN assets
           => /\ CreateAlliance(Store, req).err # ""
              /\ CreateAlliance(Store, req).st.assets = assets

\* a create proposal for a stored denom has failed; the stored record
\* holds tokens and another weight than the proposal's
C26_Witness ==
    /\ ledger.last = "CreateAlliance"
    /\ ledger.err = "ErrAlreadyExists"
    /\ ledger.key[1] \in DOMAIN assets
    /\ assets[ledger.key[1]].TotalTokens > 0
    /\ \A req \in CreateMessages : assets[ledger.key[1]].RewardWeight # req.RewardWeight

----------------------------------------------------------------------------
(* C27 *)

\* C27: ClaimDelegationRewards for (delegator, validator, denom) with no
\* delegation of that denom by that delegator on that validator returns an
\* error, pays nothing, and leaves every delegation's local index, the
\* rewards pool balance and the validator's global index unchanged.
C27_ClaimWithoutDelegationFails ==
    \A delAddr \in {"user1", "user2"}, valAddr \in DOMAIN validators, denom \in Denoms :
        <<delAddr, valAddr, denom>> \notin DOMAIN delegations
           => /\ ClaimDelegationRewards(Store, delAddr, valAddr, denom).err # ""
              /\ \A d \in RewardDenoms :
                    ClaimDelegationRewards(Store, delAddr, valAddr, denom).coins[d] = 0
              /\ ClaimDelegationRewards(Store, delAddr, valAddr, denom).st.delegations
                    = delegations
              /\ ClaimDelegationRewards(Store, delAddr, valAddr, denom).st.bank = bank
              /\ ClaimDelegationRewards(Store, delAddr, valAddr, denom).st.validators
                    = validators

\* a claim for a stored asset without a delegation has failed while the
\* rewards pool holds coins owed to a delegation whose local index is behind
C27_Witness ==
    /\ ledger.last = "ClaimDelegationRewards"
    /\ ledger.err = "ErrNoDelegatorForAddress"
    /\ bank.RewardsPool["stake"] > 0
    /\ \E k \in DOMAIN delegations :
          GetIndexByDenom(delegations[k].RewardHistory, "stake")
             < GetIndexByDenom(validators[k[2]].GlobalRewardHistory, "stake")

----------------------------------------------------------------------------
(* Blocks ended by the EndBlocker, from the genesis states of the hooks:
   a block either goes on to the next or is aborted by a panic *)

\* a collaborator of the step fails: the EndBlocker panics and nothing of
\* the block's state transition is committed
EndBlockerPanics(failing) ==
    LET done(res) ==
            /\ res.err # ""
            /\ Commit([Failed(Store, "EndBlocker", res.err)
                         EXCEPT !.ledger.steps = res.st.ledger.steps])
    IN  done(EndBlockerOutcome(Begin(Store, "EndBlocker"), failing))

NextBlocks ==
    \/ \E dt \in {1, 2, 3} : EndBlockerStep(dt)
    \/ \E failing \in Failures : EndBlockerPanics(failing)

SpecBlocks == InitHooks /\ [][NextBlocks]_vars

----------------------------------------------------------------------------
(* C28 *)

\* the steps up to and including the named one
StepsUpTo(name) ==
    SubSeq(EndBlockerSteps, 1,
           CHOOSE i \in DOMAIN EndBlockerSteps : EndBlockerSteps[i] = name)

\* every stored asset has started its rewards
AllStarted == \A denom \in DOMAIN assets : RewardsStarted(assets[denom], ctx.BlockTime)

\* the outcome of an EndBlocker run in the current state: all six steps in
\* order when it returns, the steps up to the failing one when it panics
InOrder(res, failing) ==
    /\ res.err = "" <=> failing = "none"
    /\ res.err = "" => res.st.ledger.steps = EndBlockerSteps
    /\ res.err = "" /\ AllStarted => ~res.st.rebalanceQueued
    /\ res.err # "" => res.st.ledger.steps = StepsUpTo(failing)

\* C28: each EndBlocker invocation runs its steps in the fixed order
\* (complete redelegations, complete undelegations, InitializeAllianceAssets,
\* DeductAssetsHook, RewardWeightChangeHook, RebalanceHook), so a rebalance
\* queued by the decay of the block is consumed in the same block; an error
\* from undelegation completion, take rate, decay or rebalance panics, so
\* that no later step runs and nothing of the block is committed.
C28_EndBlockerOrderAndPanic ==
    /\ [](\A failing \in Failures \cup {"none"} :
             InOrder(EndBlockerOutcome(Begin(Store, "EndBlocker"), failing), failing))
    /\ [][ledger'.last = "EndBlocker" /\ ledger'.err # ""
             => UNCHANGED <<assets, validators, delegations, snapshots,
                            rebalanceQueued, params, bank, ctx>>]_vars

\* a block was aborted by a failing take rate, before the decay and the
\* rebalance; run without failure, the EndBlocker changes the assets
C28_Witness ==
    /\ ledger.last = "EndBlocker"
    /\ ledger.err = "failed to deduct take rate from alliance"
    /\ ledger.steps = StepsUpTo("DeductAssetsHook")
    /\ EndBlocker(Begin(Store, "EndBlocker")).err = ""
    /\ EndBlocker(Begin(Store, "EndBlocker")).st.assets # assets

----------------------------------------------------------------------------
(* Properties of an update whose flush fails *)

\* UpdateAllianceAsset run on the current store while the reward withdrawal
\* of valAddr fails
FlushFailing(m, valAddr) ==
    UpdateAllianceAsset([Begin(Store, "UpdateAllianceAsset") EXCEPT !.bank.Failing = {valAddr}], m)

\* the validators the loop visits before valAddr
RECURSIVE VisitedBefore(_, _)
VisitedBefore(valAddrs, valAddr) ==
    IF valAddrs = <<>> \/ Head(valAddrs) = valAddr THEN {}
    ELSE {Head(valAddrs)} \cup VisitedBefore(Tail(valAddrs), valAddr)

----------------------------------------------------------------------------
(* Properties of the order of a weight change *)

\* the store after the validator loop of UpdateAllianceAsset(m) has handled
\* the first n validators
Visited(m, n) ==
    SnapshotValidators(Begin(Store, "UpdateAllianceAsset"), m.Denom, assets[m.Denom],
                       SubSeq(IterateAllianceValidatorInfo(Store), 1, n)).st

\* the store of Visited(m, n - 1) after the flush of the n-th validator
FlushedNext(m, n) ==
    ClaimValidatorRewards(Visited(m, n - 1), IterateAllianceValidatorInfo(Store)[n])

SnapshotKey(m, valAddr) == <<m.Denom, valAddr, ctx.BlockHeight>>

\* C30: when UpdateAllianceAsset changes a reward weight, the loop handles
\* the validators one by one: it flushes the validator's outstanding
\* rewards, then writes the snapshot with the old weight and the validator's
\* global index vector as the flush left it, and after each validator the
\* asset store still holds the old weight; the new weight is stored after
\* the loop, when every validator has its snapshot.
C30_FlushThenSnapshotThenWeight ==
    /\ [](\A m \in DepositMessages :
             m.RewardWeight # assets[m.Denom].RewardWeight
             => /\ \A n \in 1..Len(IterateAllianceValidatorInfo(Store)) :
                      /\ Visited(m, n).validators = FlushedNext(m, n).validators
                      /\ Visited(m, n).bank = FlushedNext(m, n).bank
                      /\ Visited(m, n).snapshots =
                            Put(Visited(m, n - 1).snapshots,
                                SnapshotKey(m, IterateAllianceValidatorInfo(Store)[n]),
                                [PrevRewardWeight |-> assets[m.Denom].RewardWeight,
                                 RewardHistories |->
                                    FlushedNext(m, n).validators[
                                        IterateAllianceValidatorInfo(Store)[n]].GlobalRewardHistory])
                      /\ Visited(m, n).assets = assets
                /\ UpdateAllianceAsset(Begin(Store, "UpdateAllianceAsset"), m).err = ""
                /\ UpdateAllianceAsset(Begin(Store, "UpdateAllianceAsset"), m).st.assets[m.Denom].RewardWeight
                      = m.RewardWeight
                /\ UpdateAllianceAsset(Begin(Store, "UpdateAllianceAsset"), m).st.snapshots
                      = Visited(m, Len(IterateAllianceValidatorInfo(Store))).snapshots)
    /\ [][/\ ledger'.last = "UpdateAllianceAsset"
          /\ ledger'.err = ""
          /\ assets'["alliance"].RewardWeight # assets["alliance"].RewardWeight
          => \A v \in DOMAIN validators :
                /\ <<"alliance", v, ctx.BlockHeight>> \in DOMAIN snapshots'
                /\ snapshots'[<<"alliance", v, ctx.BlockHeight>>] =
                      [PrevRewardWeight |-> assets["alliance"].RewardWeight,
                       RewardHistories |-> validators'[v].GlobalRewardHistory]
                /\ \A d \in RewardDenoms : validators'[v].Outstanding[d] = 0]_vars

\* an update has changed the weight of "alliance": both validators were
\* flushed, each has the snapshot of this block with the old weight and its
\* index vector, which for "val1" holds the index of flushed staking rewards
C30_Witness ==
    /\ ledger.last = "UpdateAllianceAsset"
    /\ ledger.err = ""
    /\ ledger.calls = <<<<"ClaimValidatorRewards", "val1">>, <<"ClaimValidatorRewards", "val2">>>>
    /\ \A v \in Vals :
          /\ <<"alliance", v, ctx.BlockHeight>> \in DOMAIN snapshots
          /\ snapshots[<<"alliance", v, ctx.BlockHeight>>].PrevRewardWeight
                # assets["alliance"].RewardWeight
          /\ snapshots[<<"alliance", v, ctx.BlockHeight>>].RewardHistories
                = validators[v].GlobalRewardHistory
    /\ GetIndexByDenom(validators["val1"].GlobalRewardHistory, "stake") > 0
    /\ bank.RewardsPool["stake"] > 0

----------------------------------------------------------------------------
(* Governance over two validators: "alliance" is active since genesis and
   decays by half every interval down to its minimum; "alliance2" is created
   by proposal and starts after the reward delay; update messages change the
   take rate, the decay settings or the weight *)

InitGovern ==
    /\ \E min \in {0, NewDec(1)} :
          assets = [d \in {"alliance"} |->
             [Delegated(NewAllianceAsset(NewDec(2), min, NewDec(5), 0, ZeroTime), 2)
                EXCEPT !.IsInitialized = TRUE,
                       !.RewardChangeRate = NewDec(1) \div 2,
                       !.RewardChangeInterval = 1,
                       !.LastRewardChangeTime = StartTime]]
    /\ validators = [v \in Vals |->
          NewAllianceValidator([d \in Denoms |-> IF d = "alliance" THEN 1 ELSE 0],
                               "bonded", 2)]
    /\ delegations = [k \in {<<"user1", "val1", "alliance">>, <<"user2", "val2", "alliance">>} |->
                        NewDelegation(StartHeight, 1, EmptyHistory)]
    /\ snapshots = [k \in {} |-> 0]
    /\ rebalanceQueued = FALSE
    /\ params = [LastTakeRateClaimTime |-> StartTime, TakeRateClaimInterval |-> 1,
                 RewardDelayTime |-> 2]
    /\ bank = NewBank([d \in Denoms |-> IF d = "alliance" THEN 2 ELSE 0])
    /\ ctx = [BlockTime |-> StartTime, BlockHeight |-> StartHeight]
    /\ ledger = NewLedger(DOMAIN delegations)

\* the proposals to create "alliance2", without or with a decay schedule
GovernCreateMessages ==
    {[Denom |-> "alliance2", RewardWeight |-> NewDec(2),
      RewardWeightRange |-> [Min |-> 0, Max |-> NewDec(5)], TakeRate |-> 0,
      RewardChangeRate |-> c.rate, RewardChangeInterval |-> c.interval] :
        c \in {[rate |-> NewDec(1), interval |-> 0],
               [rate |-> NewDec(1) \div 2, interval |-> 1]}}

\* the update messages tried: an asset record of the caller, whose range,
\* totals, start time and initialization flag are not the stored ones, and
\* which keeps or changes the weight, the take rate and the decay settings
GovernMessages ==
    {[Denom |-> denom,
      RewardWeight |-> IF u.weight THEN NewDec(3) ELSE assets[denom].RewardWeight,
      RewardWeightRange |-> [Min |-> NewDec(1), Max |-> NewDec(4)],
      TakeRate |-> IF u.takeRate THEN NewDec(1) \div 2 ELSE assets[denom].TakeRate,
      TotalTokens |-> assets[denom].TotalTokens + 1,
      TotalValidatorShares |-> assets[denom].TotalValidatorShares + NewDec(1),
      RewardStartTime |-> assets[denom].RewardStartTime + 1,
      RewardChangeRate |-> IF u.decay THEN u.rate ELSE assets[denom].RewardChangeRate,
      RewardChangeInterval |-> IF u.decay THEN u.interval
                               ELSE assets[denom].RewardChangeInterval,
      LastRewardChangeTime |-> assets[denom].LastRewardChangeTime,
      IsInitialized |-> ~assets[denom].IsInitialized] :
        denom \in DOMAIN assets,
        u \in {[weight |-> w, takeRate |-> t, decay |-> c.decay, rate |-> c.rate,
                interval |-> c.interval] :
                  w \in BOOLEAN, t \in BOOLEAN,
                  c \in {[decay |-> FALSE, rate |-> NewDec(1), interval |-> 0],
                         [decay |-> TRUE, rate |-> NewDec(1) \div 2, interval |-> 1],
                         [decay |-> TRUE, rate |-> NewDec(1) \div 2, interval |-> 2]}}}

NextGovern ==
    \/ \E req \in GovernCreateMessages : CreateAllianceTx(req)
    \/ \E m \in GovernMessages : UpdateAllianceAssetTx(m)
    \/ \E dt \in {1, 2} : EndBlockerStep(dt)

SpecGovern == InitGovern /\ [][NextGovern]_vars

----------------------------------------------------------------------------
(* Properties of governance updates and of the decay *)

\* UpdateAllianceAsset run on the current store
Updated(m) == UpdateAllianceAsset(Begin(Store, "UpdateAllianceAsset"), m)

\* after holds, for every validator, a snapshot of denom at this height with
\* the weight stored before, and no other snapshot of denom was written
SnapshotForEveryValidator(after, denom) ==
    /\ \A v \in DOMAIN validators :
          /\ <<denom, v, ctx.BlockHeight>> \in DOMAIN after.snapshots
          /\ after.snapshots[<<denom, v, ctx.BlockHeight>>].PrevRewardWeight
                = assets[denom].RewardWeight
          /\ after.snapshots[<<denom, v, ctx.BlockHeight>>].RewardHistories
                = after.validators[v].GlobalRewardHistory
    /\ \A k \in DOMAIN after.snapshots :
          k[1] = denom /\ k[3] # ctx.BlockHeight
          => k \in DOMAIN snapshots /\ after.snapshots[k] = snapshots[k]

\* C31: an UpdateAllianceAsset whose weight equals the stored weight writes
\* no snapshot, whatever else it changes, and a decay step whose clamped
\* result equals the current weight writes none for its asset; an update or
\* a decay step that changes the weight writes one snapshot for every
\* validator and queues a rebalance.
C31_SnapshotIffWeightChanges ==
    /\ \A m \in GovernMessages :
          Updated(m).err = ""
          => IF m.RewardWeight = assets[m.Denom].RewardWeight
             THEN Updated(m).st.snapshots = snapshots
             ELSE /\ SnapshotForEveryValidator(Updated(m).st, m.Denom)
                  /\ Updated(m).st.rebalanceQueued
    /\ \A denom \in DOMAIN assets :
          DecayDue(assets[denom], ctx.BlockTime)
          => IF DecayedAsset(assets[denom], ctx.BlockTime).RewardWeight
                   = assets[denom].RewardWeight
             THEN SnapshotsOf(WeightChanged, denom) = SnapshotsOf(Store, denom)
             ELSE /\ SnapshotForEveryValidator(WeightChanged, denom)
                  /\ WeightChanged.rebalanceQueued

\* the decay of "alliance" is due and clamped to the weight it has, after a
\* decay step that changed the weight from 2 and wrote a snapshot for both
\* validators; an update that only changes the take rate is accepted
C31_Witness ==
    /\ DecayDue(assets["alliance"], ctx.BlockTime)
    /\ DecayedAsset(assets["alliance"], ctx.BlockTime).RewardWeight
          = assets["alliance"].RewardWeight
    /\ \A v \in Vals :
          \E k \in DOMAIN snapshots :
             /\ k[1] = "alliance" /\ k[2] = v
             /\ snapshots[k].PrevRewardWeight = NewDec(2)
    /\ \E m \in GovernMessages :
          /\ m.RewardWeight = assets[m.Denom].RewardWeight
          /\ m.TakeRate # assets[m.Denom].TakeRate
          /\ Updated(m).err = ""
          /\ Updated(m).st.assets # assets

\* the store after InitializeAllianceAssets has run on the stored assets
Initialized == InitializeAllianceAssets(Begin(Store, "EndBlocker"), assets).st

\* C32: InitializeAllianceAssets does nothing for an asset before its
\* RewardStartTime or once it is initialized; at the first invocation at or
\* after RewardStartTime it writes one zero-weight snapshot per validator at
\* the current height and sets IsInitialized; no step resets IsInitialized
\* or writes another zero-weight snapshot for an initialized asset.
C32_ActivatedExactlyOnce ==
    /\ [](\A d \in DOMAIN assets :
             IF assets[d].IsInitialized \/ ctx.BlockTime < assets[d].RewardStartTime
             THEN /\ Initialized.assets[d] = assets[d]
                  /\ SnapshotsOf(Initialized, d) = SnapshotsOf(Store, d)
             ELSE /\ Initialized.assets[d] = [assets[d] EXCEPT !.IsInitialized = TRUE]
                  /\ \A v \in DOMAIN validators :
                        /\ <<d, v, ctx.BlockHeight>> \in DOMAIN Initialized.snapshots
                        /\ Initialized.snapshots[<<d, v, ctx.BlockHeight>>] =
                              [PrevRewardWeight |-> 0,
                               RewardHistories |-> validators[v].GlobalRewardHistory]
                  /\ \A k \in DOMAIN Initialized.snapshots :
                        k[1] = d /\ k[3] # ctx.BlockHeight
                        => k \in DOMAIN snapshots /\ Initialized.snapshots[k] = snapshots[k])
    /\ [][\A d \in DOMAIN assets :
             /\ assets[d].IsInitialized
                => /\ d \in DOMAIN assets'
                   /\ assets'[d].IsInitialized
                   /\ \A k \in DOMAIN snapshots' :
                         k[1] = d /\ snapshots'[k].PrevRewardWeight = 0
                         => k \in DOMAIN snapshots /\ snapshots'[k] = snapshots[k]
             /\ ~assets[d].IsInitialized /\ assets'[d].IsInitialized
                => /\ ledger'.last = "EndBlocker"
                   /\ ctx.BlockTime >= assets[d].RewardStartTime]_vars

\* "alliance2" was activated by the EndBlocker of the block before, the first
\* at or after its RewardStartTime: both validators have its zero-weight
\* snapshot at that height, and another run would leave it alone
C32_Witness ==
    /\ ledger.last = "EndBlocker"
    /\ "alliance2" \in DOMAIN assets
    /\ assets["alliance2"].IsInitialized
    /\ assets["alliance2"].RewardStartTime > StartTime
    /\ \A v \in Vals :
          /\ <<"alliance2", v, ctx.BlockHeight - 1>> \in DOMAIN snapshots
          /\ snapshots[<<"alliance2", v, ctx.BlockHeight - 1>>].PrevRewardWeight = 0
    /\ Initialized.snapshots = snapshots
    /\ Initialized.assets = assets

----------------------------------------------------------------------------
(* Properties of the rebalance of an asset that has not started *)

\* RebalanceHook run on the current store with a rebalance pending
RebalancePending == RebalanceHook(QueueAssetRebalanceEvent(Begin(Store, "RebalanceHook")), assets)

\* C33: a rebalance that runs while the RewardStartTime of some asset is
\* still ahead sets the pending-rebalance marker again, however many
\* validators are bonded, so that RebalanceHook runs in every block up to the
\* one in which the asset starts and its weight is included.
C33_MarkerSetAgainBeforeStart ==
    (\E d \in DOMAIN assets : ~RewardsStarted(assets[d], ctx.BlockTime))
    => (RebalancePending.err = "" => RebalancePending.st.rebalanceQueued)

----------------------------------------------------------------------------
(* Properties of the decay within a block *)

\* the EndBlocker run on the current store
Ended == EndBlocker(Begin(Store, "EndBlocker"))

\* C34: when the interval of an asset has elapsed, the EndBlocker decays its
\* weight, marks a rebalance as pending and runs the rebalancer in the same
\* invocation with the decayed weight: at the end of the block the marker
\* is consumed (unless an asset that has not started sets it again) and what
\* the module has bonded on each bonded validator is the share its decayed
\* weights give it, to less than one unit.
C34_DecayRebalancedInSameBlock ==
    \A d \in DOMAIN assets :
        DecayDue(assets[d], ctx.BlockTime)
        => /\ Ended.err = ""
           /\ Ended.st.assets[d].RewardWeight
                 = DecayedAsset(assets[d], ctx.BlockTime).RewardWeight
           /\ \E i \in DOMAIN Ended.st.ledger.calls :
                 Ended.st.ledger.calls[i] = <<"RebalanceBondTokenWeights">>
           /\ (\A x \in DOMAIN assets : RewardsStarted(assets[x], ctx.BlockTime))
                 => ~Ended.st.rebalanceQueued
           /\ EachWithinOneUnit(Ended.st, Ended.st)

\* the EndBlocker of the block before has decayed "alliance" and, in the
\* same run, rebalanced: the module's stake on "val1" was changed
C34_Witness ==
    /\ ledger.last = "EndBlocker"
    /\ ledger.err = ""
    /\ assets["alliance"].RewardWeight < GenesisWeight
    /\ assets["alliance"].LastRewardChangeTime > StartTime
    /\ \E i \in DOMAIN ledger.calls : ledger.calls[i] = <<"RebalanceBondTokenWeights">>
    /\ \E i \in DOMAIN ledger.calls : ledger.calls[i][1] = "Delegate"
    /\ validators["val1"].ModuleShares > 0
    /\ ~rebalanceQueued
    /\ EachWithinOneUnit(Store, Store)

----------------------------------------------------------------------------
(* Properties of the order of the rebalancer's calls *)

\* expected less current bonded amount of the validator when the rebalancer
\* starts on the current store
BondDelta(valAddr) ==
    expectedBondAmount(Store, assets, valAddr, nativeBondAmount(Store),
                       unbondedValidatorShares(Store))
    - currentBondedAmount(Store, valAddr)

\* the calls of the rebalancer run on the current store obey the order
CallsInOrder(calls) ==
    \A i \in DOMAIN calls :
        /\ calls[i][1] = "MintCoins"
           => /\ i + 2 <= Len(calls)
              /\ calls[i][2] > 0
              /\ calls[i + 1][1] = "ClaimValidatorRewards"
              /\ calls[i + 2] = <<"Delegate", calls[i + 1][2], calls[i][2]>>
        /\ calls[i][1] = "Delegate"
           => /\ i > 2
              /\ calls[i - 1] = <<"ClaimValidatorRewards", calls[i][2]>>
              /\ calls[i - 2] = <<"MintCoins", calls[i][3]>>
        /\ calls[i][1] = "Unbond"
           => /\ i > 1 /\ i + 1 <= Len(calls)
              /\ calls[i - 1] = <<"ClaimValidatorRewards", calls[i][2]>>
              /\ calls[i][3] = ValidateUnbondAmount(Store, calls[i][2],
                                                    TruncateInt(0 - BondDelta(calls[i][2]))).shares
              /\ calls[i + 1] = <<"BurnCoins", validators[calls[i][2]].Tokens
                                               - Rebalanced.st.validators[calls[i][2]].Tokens>>
        /\ calls[i][1] = "BurnCoins"
           => i > 1 /\ calls[i - 1][1] = "Unbond"
        /\ calls[i][1] = "ClaimValidatorRewards"
           => /\ i + 1 <= Len(calls)
              /\ calls[i + 1][1] \in {"Delegate", "Unbond"}
              /\ calls[i + 1][2] = calls[i][2]

\* C35: the rebalancer flushes a validator's rewards before every change of
\* the module's shares on it: to raise the stake it mints, flushes and
\* delegates, to lower it it validates the unbond amount, flushes, unbonds
\* and burns exactly the tokens the unbond returned; when the truncated
\* difference is zero it calls none of these for the validator.
C35_FlushBeforeShareChange ==
    /\ CallsInOrder(Rebalanced.st.ledger.calls)
    /\ Rebalanced.err = ""
       => \A v \in Bonded(Store) :
             IF TruncateInt(Abs(BondDelta(v))) = 0
             THEN /\ Rebalanced.st.validators[v] = validators[v]
                  /\ \A i \in DOMAIN Rebalanced.st.ledger.calls :
                        ~NamesValidator(Rebalanced.st.ledger.calls[i], v)
             ELSE /\ Rebalanced.st.validators[v].ModuleShares # validators[v].ModuleShares
                  /\ \E i \in DOMAIN Rebalanced.st.ledger.calls :
                        Rebalanced.st.ledger.calls[i] = <<"ClaimValidatorRewards", v>>

\* a rebalance has lowered the stake on one validator and raised it on the
\* other, and a rebalance now would find a difference below one token
C35_Witness ==
    /\ ledger.last = "RebalanceBondTokenWeights" /\ ledger.err = ""
    /\ \E i \in DOMAIN ledger.calls : ledger.calls[i][1] = "Unbond"
    /\ \E i \in DOMAIN ledger.calls : ledger.calls[i][1] = "Delegate"
    /\ \E v \in Bonded(Store) : BondDelta(v) # 0 /\ TruncateInt(Abs(BondDelta(v))) = 0

----------------------------------------------------------------------------
(* Properties of the take-rate clock *)

\* C36: whenever DeductAssetsHook fires (the block time is after the last
\* claim time plus the claim interval), the last claim time strictly
\* increases and afterwards the block time exceeds it by less than one claim
\* interval, also when every eligible asset is skipped by floor protection.
C36_ClaimClockProgress ==
    ctx.BlockTime > params.LastTakeRateClaimTime + params.TakeRateClaimInterval
    => /\ Deducted.st.params.LastTakeRateClaimTime > params.LastTakeRateClaimTime
       /\ ctx.BlockTime - Deducted.st.params.LastTakeRateClaimTime
             < params.TakeRateClaimInterval

\* C37: RewardWeightChangeHook never changes the reward weight of an asset
\* at a block time earlier than RewardStartTime + RewardChangeInterval,
\* whatever creations and updates, also of the decay rate and interval, came
\* before.
C37_NoDecayBeforeStartPlusInterval ==
    \A d \in DOMAIN assets :
        WeightChanged.assets[d].RewardWeight # assets[d].RewardWeight
        => ctx.BlockTime >= assets[d].RewardStartTime + assets[d].RewardChangeInterval

\* the fields an update may not change have in after the values stored now
NonWhitelistedKept(after, denom) ==
    /\ after.RewardWeightRange = assets[denom].RewardWeightRange
    /\ after.TotalTokens = assets[denom].TotalTokens
    /\ after.TotalValidatorShares = assets[denom].TotalValidatorShares
    /\ after.RewardStartTime = assets[denom].RewardStartTime
    /\ after.IsInitialized = assets[denom].IsInitialized

\* C38: a successful UpdateAllianceAsset stores the caller's TakeRate,
\* RewardWeight, RewardChangeRate and RewardChangeInterval, and the caller's
\* LastRewardChangeTime or the block time; the asset stays under its denom and
\* its RewardWeightRange, TotalTokens, TotalValidatorShares, RewardStartTime
\* and IsInitialized keep their stored values whatever the caller passed.
C38_OnlyWhitelistedFieldsChange ==
    \A m \in GovernMessages :
        Updated(m).err = ""
        => /\ DOMAIN Updated(m).st.assets = DOMAIN assets
           /\ \A d \in DOMAIN assets \ {m.Denom} :
                 Updated(m).st.assets[d] = assets[d]
           /\ NonWhitelistedKept(Updated(m).st.assets[m.Denom], m.Denom)
           /\ Updated(m).st.assets[m.Denom].TakeRate = m.TakeRate
           /\ Updated(m).st.assets[m.Denom].RewardWeight = m.RewardWeight
           /\ Updated(m).st.assets[m.Denom].RewardChangeRate = m.RewardChangeRate
           /\ Updated(m).st.assets[m.Denom].RewardChangeInterval = m.RewardChangeInterval
           /\ Updated(m).st.assets[m.Denom].LastRewardChangeTime
                 \in {m.LastRewardChangeTime, ctx.BlockTime}

\* an update of "alliance" that changed its weight, take rate and decay
\* interval has been stored, the range and the start time of the asset are
\* those of genesis, and a further update whose record differs from the
\* stored one in every other field is accepted
C38_Witness ==
    /\ ledger.last = "UpdateAllianceAsset"
    /\ ledger.err = ""
    /\ ledger.updates = 1
    /\ assets["alliance"].RewardWeight = NewDec(3)
    /\ assets["alliance"].TakeRate = NewDec(1) \div 2
    /\ assets["alliance"].RewardChangeInterval = 2
    /\ assets["alliance"].RewardWeightRange.Max = NewDec(5)
    /\ assets["alliance"].RewardStartTime = ZeroTime
    /\ assets["alliance"].IsInitialized
    /\ \E m \in GovernMessages :
          /\ m.Denom = "alliance"
          /\ Updated(m).err = ""
          /\ m.RewardWeightRange # assets["alliance"].RewardWeightRange
          /\ m.RewardStartTime # assets["alliance"].RewardStartTime
          /\ m.IsInitialized # assets["alliance"].IsInitialized

\* the coins of a reward denom paid out to delegators so far
PaidOut(d) == SumOf([k \in DOMAIN ledger.paid |-> ledger.paid[k][d]], DOMAIN ledger.paid)

\* the truncations to whole coins made by the claims of a reward denom so far
Truncations(d) ==
    SumOf([k \in DOMAIN ledger.truncs |-> ledger.truncs[k][d]], DOMAIN ledger.truncs)

\* C39: in each reward denom the total paid out by ClaimDelegationRewards
\* never exceeds the total deposited and the rewards pool never goes
\* negative; once every delegation has claimed everything deposited, what is
\* left of the deposits is less than one coin for each truncation the claims
\* made.
C39_RewardsConserved ==
    \A d \in RewardDenoms :
        /\ PaidOut(d) <= ledger.deposited[d]
        /\ bank.RewardsPool[d] >= 0
        /\ (\A k \in DOMAIN delegations : Settled(k))
           => ledger.deposited[d] - PaidOut(d) <= Truncations(d)

============================================================================
